---- MODULE Spec2Model ----
(***************************************************************************)
(* Model of loopy's linearization checker: the pairwise schedule builder   *)
(* (loopy/schedule/checker/schedule.py), the lexicographic order map and   *)
(* the statement instance ordering built from them.                        *)
(***************************************************************************)
EXTENDS Integers, Sequences, FiniteSets, TLC

VARIABLES
    linearization_items_ordered, \* argument of PairwiseScheduleBuilder.__init__
    before_insn_id,              \* argument
    after_insn_id,               \* argument
    loops_to_ignore,             \* argument
    idx,                         \* position of the for loop over the items
    next_insn_lex_tuple,         \* local of __init__
    stmt_added_since_prev_block_at_tier, \* local of __init__
    stmt_instance_set_before,    \* attribute (None or a StatementInstanceSet)
    stmt_instance_set_after,     \* attribute (None or a StatementInstanceSet)
    pc,                          \* "loop", "pad", "constructed", "maps", "error"
    error,                       \* the exception that ended the construction
    knl,                         \* argument of build_maps: loop bound per iname
    maps,                        \* result of build_maps
    previous_query,              \* the arguments of the builder made before
                                 \* this one (None for the first builder)
    nodes,                       \* the schedule nodes ScheduleTreeBuilder made;
                                 \* nodes[1] is bob.schedule
    build_stack,                 \* bob._build_stack: positions in nodes
    id_to_insn,                  \* kernel.id_to_insn of the homogenizer
    new_schedule,                \* result of InstructionBlockHomogenizer
    kernel,                      \* insert_predicates_into_schedule: what its
                                 \* passes read of the kernel besides
                                 \* id_to_insn
    schedule,                    \* local of insert_predicates_into_schedule
    iname_tags,                  \* kernel: the axis tags of each iname
    domain,                      \* argument of _implement_hw_axes_in_domains:
                                 \* its dimension names, in dict order
    context,                     \* PolyhedronLoopifierContext of the caller
    implemented_domain,          \* local of _implement_hw_axes_in_domains
    expect_completion,           \* argument of
                                 \* infer_unknown_types_for_a_single_kernel
    writer_map,                  \* kernel.writer_map(): the expressions
                                 \* assigned to each name of unknown type
    sccs,                        \* compute_sccs(dep_graph)
    queue,                       \* local of the type inference
    failed_names,                \* local of the type inference
    changed_during_last_queue_run, \* local of the type inference
    new_temp_vars,               \* dtype of each name (None: unknown)
    debug_log                    \* the outcomes written by debug(...)

vars == <<linearization_items_ordered, before_insn_id, after_insn_id,
          loops_to_ignore, idx, next_insn_lex_tuple,
          stmt_added_since_prev_block_at_tier, stmt_instance_set_before,
          stmt_instance_set_after, pc, error, knl, maps, previous_query,
          nodes, build_stack, id_to_insn, new_schedule, kernel, schedule,
          iname_tags, domain, context, implemented_domain,
          expect_completion, writer_map, sccs, queue, failed_names,
          changed_during_last_queue_run, new_temp_vars, debug_log>>

\* the state of make_schedule_tree, homogenize_instruction_blocks and
\* insert_predicates_into_schedule
TreeVars == <<nodes, build_stack, id_to_insn, new_schedule, kernel, schedule>>
\* the state of _implement_hw_axes_in_domains
HwVars == <<iname_tags, domain, context, implemented_domain>>
\* the state of infer_unknown_types_for_a_single_kernel
InferVars == <<expect_completion, writer_map, sccs, queue, failed_names,
               changed_during_last_queue_run, new_temp_vars, debug_log>>
\* the state of PairwiseScheduleBuilder, its arguments apart
BuilderVars == <<before_insn_id, after_insn_id, loops_to_ignore,
                 next_insn_lex_tuple, stmt_added_since_prev_block_at_tier,
                 stmt_instance_set_before, stmt_instance_set_after,
                 knl, maps, previous_query>>

---------------------------------------------------------------------------
\* Bounds of the model

\* longest linearization (items between CallKernel and ReturnFromKernel)
MaxLen == 6
\* largest loop trip count of a kernel domain {0 <= iname < p}
MaxTrip == 2
\* longest linearization handed to insert_predicates_into_schedule
MaxPredLen == 5
\* most writer instructions of a name of unknown type
MaxWriters == 2
\* longest flat schedule handed to make_schedule_tree item by item
MaxSchedLen == 5
\* loop variables the generated linearizations use
Inames == {"i", "j"}
\* statement ids, given to the statements of a linearization in order
StmtIds == <<"a", "b", "c">>
\* the ignore-sets tried
IgnoreChoices == {{}, {"j"}}

---------------------------------------------------------------------------
\* Values

\* Python's None for an instruction id / an unused field of an item
NoName == "<None>"
\* Python's None for an object attribute: an option is <<>> or <<x>>
None == <<>>
Some(x) == <<x>>
Get(o) == o[1]

Max(a, b) == IF a >= b THEN a ELSE b
Last(s) == s[Len(s)]

\* the reserved identifiers
LIN_CHECK_IDENTIFIER_PREFIX == "_lp_linchk_"
LEX_VAR_PREFIX == LIN_CHECK_IDENTIFIER_PREFIX \o "l"
STATEMENT_VAR_NAME == LIN_CHECK_IDENTIFIER_PREFIX \o "statement"

\* a linearization item (loopy.schedule: EnterLoop, LeaveLoop, RunInstruction,
\* Barrier, CallKernel, ReturnFromKernel).  A field that the class of the
\* item does not have holds NoName or the empty list; the items of the one
\* sub-kernel "example" and local barriers without comment are the default.
Item(kind, iname, insn_id, orig) ==
    [kind |-> kind, iname |-> iname, insn_id |-> insn_id,
     originating_insn_id |-> orig,
     kernel_name |-> IF kind \in {"CallKernel", "ReturnFromKernel"}
                     THEN "example" ELSE NoName,
     extra_args |-> <<>>,
     extra_inames |-> <<>>,
     comment |-> IF kind = "Barrier" THEN "" ELSE NoName,
     synchronization_kind |-> IF kind = "Barrier" THEN "local" ELSE NoName,
     mem_kind |-> IF kind = "Barrier" THEN "local" ELSE NoName]
EnterLoop(iname) == Item("EnterLoop", iname, NoName, NoName)
LeaveLoop(iname) == Item("LeaveLoop", iname, NoName, NoName)
RunInstruction(id) == Item("RunInstruction", NoName, id, NoName)
Barrier(orig) == Item("Barrier", NoName, NoName, orig)
CallKernel == Item("CallKernel", NoName, NoName, NoName)
ReturnFromKernel == Item("ReturnFromKernel", NoName, NoName, NoName)

\* the items with the fields the defaults fix
CallKernelOf(kernel_name, extra_args, extra_inames) ==
    [CallKernel EXCEPT !.kernel_name = kernel_name,
                       !.extra_args = extra_args,
                       !.extra_inames = extra_inames]
ReturnFromKernelOf(kernel_name) ==
    [ReturnFromKernel EXCEPT !.kernel_name = kernel_name]
BarrierOf(comment, synchronization_kind, mem_kind, orig) ==
    [Barrier(orig) EXCEPT !.comment = comment,
                          !.synchronization_kind = synchronization_kind,
                          !.mem_kind = mem_kind]

\* one dimension of a lex point: an int or an iname (a str)
IntDim(n) == [iname |-> NoName, int |-> n]
VarDim(iname) == [iname |-> iname, int |-> 0]
IsInt(d) == d.iname = NoName

StatementInstanceSet(insn_id, lex_points) ==
    [insn_id |-> insn_id, lex_points |-> lex_points]

---------------------------------------------------------------------------
\* The walk of PairwiseScheduleBuilder.__init__ over the linearization

\* the locals and attributes the loop body reads and writes
Walker(t, f, sb, sa) ==
    [next_insn_lex_tuple |-> t,
     stmt_added_since_prev_block_at_tier |-> f,
     stmt_instance_set_before |-> sb,
     stmt_instance_set_after |-> sa]

InitWalker == Walker(<<IntDim(0)>>, <<FALSE>>, None, None)

\* a builder that starts from the lex tuple and flags the builder before it
\* ended with
KeepLexTuple(prev) ==
    Walker(prev.next_insn_lex_tuple, prev.stmt_added_since_prev_block_at_tier,
           None, None)

\* the attributes and locals of a builder made after the builder `prev`:
\* __init__ sets them anew
NewLocals(prev) == InitWalker

\* [v]*n, as a tuple
RECURSIVE Repeat(_, _)
Repeat(v, n) == IF n <= 0 THEN <<>> ELSE <<v>> \o Repeat(v, n - 1)

\* next_insn_lex_tuple[-1] = next_insn_lex_tuple[-1]+1
IncrLast(t) == [t EXCEPT ![Len(t)] = IntDim(t[Len(t)].int + 1)]
SetLast(f, v) == [f EXCEPT ![Len(f)] = v]

\* a block counter that is never bumped on entering or leaving a loop
BumpNever(t, f) == [t |-> t, f |-> f]

\* a block counter that is bumped whether or not the tier has seen a statement
BumpAlways(t, f) == [t |-> IncrLast(t), f |-> SetLast(f, FALSE)]

\* the block counter is bumped if the tier has seen a statement
BumpIfStmtAdded(t, f) ==
    IF Last(f)
    THEN [t |-> IncrLast(t), f |-> SetLast(f, FALSE)]
    ELSE [t |-> t, f |-> f]

\* an EnterLoop that closes the current block even for an ignored loop
EnterLoopStepIgnoredBumps(w, item, ignore) ==
    LET b == BumpIfStmtAdded(w.next_insn_lex_tuple,
                             w.stmt_added_since_prev_block_at_tier)
    IN  IF item.iname \in ignore
        THEN [w EXCEPT
                !.next_insn_lex_tuple = b.t,
                !.stmt_added_since_prev_block_at_tier = b.f]
        ELSE [w EXCEPT
                !.next_insn_lex_tuple =
                    b.t \o <<VarDim(item.iname), IntDim(0)>>,
                !.stmt_added_since_prev_block_at_tier = Append(b.f, FALSE)]

EnterLoopStep(w, item, ignore) ==
    IF item.iname \in ignore
    THEN w
    ELSE LET b == BumpIfStmtAdded(w.next_insn_lex_tuple,
                                  w.stmt_added_since_prev_block_at_tier)
         IN  [w EXCEPT
                !.next_insn_lex_tuple =
                    b.t \o <<VarDim(item.iname), IntDim(0)>>,
                !.stmt_added_since_prev_block_at_tier = Append(b.f, FALSE)]

\* a LeaveLoop that tests the flag of the tier it leaves, not the flag of the
\* tier it comes back to
LeaveLoopStepTestsPoppedFlag(w, item, ignore) ==
    IF item.iname \in ignore
    THEN w
    ELSE LET t == w.next_insn_lex_tuple
             f == w.stmt_added_since_prev_block_at_tier
             t1 == SubSeq(t, 1, Len(t) - 2)
             f1 == SubSeq(f, 1, Len(f) - 1)
         IN  IF Last(f)
             THEN [w EXCEPT
                    !.next_insn_lex_tuple = IncrLast(t1),
                    !.stmt_added_since_prev_block_at_tier =
                        SetLast(f1, FALSE)]
             ELSE [w EXCEPT
                    !.next_insn_lex_tuple = t1,
                    !.stmt_added_since_prev_block_at_tier = f1]

\* a LeaveLoop that pops the block counter and leaves the iname in the tuple
LeaveLoopStepPopsCounterOnly(w, item, ignore) ==
    IF item.iname \in ignore
    THEN w
    ELSE LET t == w.next_insn_lex_tuple
             f == w.stmt_added_since_prev_block_at_tier
         IN  [w EXCEPT
                !.next_insn_lex_tuple = SubSeq(t, 1, Len(t) - 1),
                !.stmt_added_since_prev_block_at_tier =
                    SubSeq(f, 1, Len(f) - 1)]

\* a LeaveLoop that pops the tier and never bumps the outer block counter
LeaveLoopStepNoBump(w, item, ignore) ==
    IF item.iname \in ignore
    THEN w
    ELSE LET t == w.next_insn_lex_tuple
             f == w.stmt_added_since_prev_block_at_tier
         IN  [w EXCEPT
                !.next_insn_lex_tuple = SubSeq(t, 1, Len(t) - 2),
                !.stmt_added_since_prev_block_at_tier =
                    SubSeq(f, 1, Len(f) - 1)]

LeaveLoopStep(w, item, ignore) ==
    IF item.iname \in ignore
    THEN w
    ELSE LET t == w.next_insn_lex_tuple
             f == w.stmt_added_since_prev_block_at_tier
             b == BumpIfStmtAdded(SubSeq(t, 1, Len(t) - 2),
                                  SubSeq(f, 1, Len(f) - 1))
         IN  [w EXCEPT
                !.next_insn_lex_tuple = b.t,
                !.stmt_added_since_prev_block_at_tier = b.f]

\* loopy.schedule.checker.utils.get_insn_id_from_linearization_item
GetInsnIdFromLinearizationItem(item) ==
    IF item.kind = "Barrier" THEN item.originating_insn_id ELSE item.insn_id

\* a statement step that records the statement and leaves the counter alone
StmtStepNoIncrement(w, item, before_id, after_id) ==
    LET lp_insn_id == GetInsnIdFromLinearizationItem(item)
        t == w.next_insn_lex_tuple
        f == w.stmt_added_since_prev_block_at_tier
        stmt_added == lp_insn_id = before_id \/ lp_insn_id = after_id
    IN  IF lp_insn_id = NoName
        THEN w
        ELSE Walker(
               t,
               IF stmt_added THEN Repeat(TRUE, Len(f)) ELSE f,
               IF lp_insn_id = before_id
               THEN Some(StatementInstanceSet(lp_insn_id, t))
               ELSE w.stmt_instance_set_before,
               IF lp_insn_id = after_id
               THEN Some(StatementInstanceSet(lp_insn_id, t))
               ELSE w.stmt_instance_set_after)

\* a statement step that bumps the counter before it records the after side
StmtStepAfterSeesIncrement(w, item, before_id, after_id) ==
    LET lp_insn_id == GetInsnIdFromLinearizationItem(item)
        t == w.next_insn_lex_tuple
        f == w.stmt_added_since_prev_block_at_tier
        stmt_added == lp_insn_id = before_id \/ lp_insn_id = after_id
    IN  IF lp_insn_id = NoName
        THEN w
        ELSE Walker(
               IF stmt_added THEN IncrLast(t) ELSE t,
               IF stmt_added THEN Repeat(TRUE, Len(f)) ELSE f,
               IF lp_insn_id = before_id
               THEN Some(StatementInstanceSet(lp_insn_id, t))
               ELSE w.stmt_instance_set_before,
               IF lp_insn_id = after_id
               THEN Some(StatementInstanceSet(lp_insn_id, IncrLast(t)))
               ELSE w.stmt_instance_set_after)

\* a statement step that marks the innermost tier only
StmtStepMarksInnermostOnly(w, item, before_id, after_id) ==
    LET lp_insn_id == GetInsnIdFromLinearizationItem(item)
        t == w.next_insn_lex_tuple
        f == w.stmt_added_since_prev_block_at_tier
        stmt_added == lp_insn_id = before_id \/ lp_insn_id = after_id
    IN  IF lp_insn_id = NoName
        THEN w
        ELSE Walker(
               IF stmt_added THEN IncrLast(t) ELSE t,
               IF stmt_added THEN SetLast(f, TRUE) ELSE f,
               IF lp_insn_id = before_id
               THEN Some(StatementInstanceSet(lp_insn_id, t))
               ELSE w.stmt_instance_set_before,
               IF lp_insn_id = after_id
               THEN Some(StatementInstanceSet(lp_insn_id, t))
               ELSE w.stmt_instance_set_after)

\* a statement step that counts an item without id as a statement
StmtStepNoIdBumps(w, item, before_id, after_id) ==
    LET lp_insn_id == GetInsnIdFromLinearizationItem(item)
        t == w.next_insn_lex_tuple
        f == w.stmt_added_since_prev_block_at_tier
        stmt_added == lp_insn_id \in {before_id, after_id, NoName}
    IN  Walker(
           IF stmt_added THEN IncrLast(t) ELSE t,
           IF stmt_added THEN Repeat(TRUE, Len(f)) ELSE f,
           IF lp_insn_id = before_id
           THEN Some(StatementInstanceSet(lp_insn_id, t))
           ELSE w.stmt_instance_set_before,
           IF lp_insn_id = after_id
           THEN Some(StatementInstanceSet(lp_insn_id, t))
           ELSE w.stmt_instance_set_after)

StmtStep(w, item, before_id, after_id) ==
    LET lp_insn_id == GetInsnIdFromLinearizationItem(item)
        t == w.next_insn_lex_tuple
        f == w.stmt_added_since_prev_block_at_tier
        stmt_added == lp_insn_id = before_id \/ lp_insn_id = after_id
    IN  IF lp_insn_id = NoName
        THEN w
        ELSE Walker(
               IF stmt_added THEN IncrLast(t) ELSE t,
               IF stmt_added THEN Repeat(TRUE, Len(f)) ELSE f,
               IF lp_insn_id = before_id
               THEN Some(StatementInstanceSet(lp_insn_id, t))
               ELSE w.stmt_instance_set_before,
               IF lp_insn_id = after_id
               THEN Some(StatementInstanceSet(lp_insn_id, t))
               ELSE w.stmt_instance_set_after)

\* the `continue` statements of the loop body skip the break test
Continues(item, ignore) ==
    \/ item.kind \in {"EnterLoop", "LeaveLoop"} /\ item.iname \in ignore
    \/ /\ item.kind \in {"RunInstruction", "Barrier"}
       /\ GetInsnIdFromLinearizationItem(item) = NoName

\* a loop without the break
BreaksNever(w) == FALSE

\* if self.stmt_instance_set_before and self.stmt_instance_set_after: break
Breaks(w) ==
    w.stmt_instance_set_before # None /\ w.stmt_instance_set_after # None

\* one iteration of the for loop
Step(w, item, before_id, after_id, ignore) ==
    CASE item.kind = "EnterLoop" -> EnterLoopStep(w, item, ignore)
      [] item.kind = "LeaveLoop" -> LeaveLoopStep(w, item, ignore)
      [] item.kind \in {"RunInstruction", "Barrier"} ->
            StmtStep(w, item, before_id, after_id)
      [] OTHER -> w

\* the whole for loop, from item k on
RECURSIVE WalkFrom(_, _, _, _, _, _)
WalkFrom(w, lin, k, before_id, after_id, ignore) ==
    IF k > Len(lin)
    THEN w
    ELSE LET w2 == Step(w, lin[k], before_id, after_id, ignore)
         IN  IF ~Continues(lin[k], ignore) /\ Breaks(w2)
             THEN w2
             ELSE WalkFrom(w2, lin, k + 1, before_id, after_id, ignore)

---------------------------------------------------------------------------
\* Padding

\* the shorter of the two lengths
MinLexDims(sb, sa) ==
    IF Len(sb.lex_points) <= Len(sa.lex_points)
    THEN Len(sb.lex_points) ELSE Len(sa.lex_points)

MaxLexDims(sb, sa) == Max(Len(sb.lex_points), Len(sa.lex_points))

\* [0]*n (the empty list for n <= 0)
Zeros(n) == [k \in 1..n |-> IntDim(0)]

PadLexTupleWithZeros(stmt_inst, length) ==
    StatementInstanceSet(
        stmt_inst.insn_id,
        stmt_inst.lex_points \o Zeros(length - Len(stmt_inst.lex_points)))

\* the exception of len(None.lex_points) in max_lex_dims
AttributeError ==
    [type |-> "AttributeError", args |-> <<"NoneType", "lex_points">>]
NoError == [type |-> "", args |-> <<>>]

\* the statements after the for loop: max_lex_dims() and the two paddings
PadBoth(w) ==
    IF w.stmt_instance_set_before = None \/ w.stmt_instance_set_after = None
    THEN [error |-> AttributeError,
          stmt_instance_set_before |-> w.stmt_instance_set_before,
          stmt_instance_set_after |-> w.stmt_instance_set_after]
    ELSE LET sb == Get(w.stmt_instance_set_before)
             sa == Get(w.stmt_instance_set_after)
             max_lex_dim == MaxLexDims(sb, sa)
         IN  [error |-> NoError,
              stmt_instance_set_before |->
                  Some(PadLexTupleWithZeros(sb, max_lex_dim)),
              stmt_instance_set_after |->
                  Some(PadLexTupleWithZeros(sa, max_lex_dim))]

\* PairwiseScheduleBuilder(linearization_items_ordered, before_insn_id,
\* after_insn_id, loops_to_ignore), as one call
PairwiseScheduleBuilder(lin, before_id, after_id, ignore) ==
    PadBoth(WalkFrom(InitWalker, lin, 1, before_id, after_id, ignore))

---------------------------------------------------------------------------
\* build_maps

\* [LEX_VAR_PREFIX+str(i) for i in range(self.max_lex_dims())]
GetLexVarNames(sb, sa) ==
    [k \in 1..MaxLexDims(sb, sa) |-> LEX_VAR_PREFIX \o ToString(k - 1)]

\* knl.id_to_insn[insn_id].within_inames: the loops around the statement
RECURSIVE OpenLoopsAt(_, _)
OpenLoopsAt(lin, k) ==
    IF k = 0 THEN <<>>
    ELSE LET open == OpenLoopsAt(lin, k - 1)
         IN  CASE lin[k].kind = "EnterLoop" -> Append(open, lin[k].iname)
               [] lin[k].kind = "LeaveLoop" -> SubSeq(open, 1, Len(open) - 1)
               [] OTHER -> open

PositionOf(lin, insn_id) ==
    CHOOSE k \in 1..Len(lin) :
        /\ lin[k].kind \in {"RunInstruction", "Barrier"}
        /\ GetInsnIdFromLinearizationItem(lin[k]) = insn_id

WithinInames(lin, insn_id) ==
    LET open == OpenLoopsAt(lin, PositionOf(lin, insn_id))
    IN  {open[k] : k \in 1..Len(open)}

\* the inames the scheduler made loops of
LoopInames(lin) ==
    {lin[k].iname : k \in {n \in 1..Len(lin) : lin[n].kind = "EnterLoop"}}

\* the inames of the kernel that are no loops of the linearization: they carry
\* a hardware axis tag, and in the kernels modelled they are around every
\* statement
HwInamesOf(lin, trips) == DOMAIN trips \ LoopInames(lin)

\* knl.get_inames_domain(within_inames): {0 <= iname < p_iname}
InamesDomain(within_inames, trips) ==
    {env \in [within_inames -> 0..(MaxTrip - 1)] :
        \A i \in within_inames : env[i] < trips[i]}

\* the value of one lex dimension for one statement instance
EvalDim(d, env) == IF IsInt(d) THEN d.int ELSE env[d.iname]
EvalPoint(lex_points, env) ==
    [k \in 1..Len(lex_points) |-> EvalDim(lex_points[k], env)]

\* _get_map_for_stmt_inst: {(statement, inames) -> lex point : inames in dom}
GetMapForStmtInst(stmt_inst, int_sid, out_names_sched, lin, trips) ==
    LET dom_inames == WithinInames(lin, stmt_inst.insn_id)
                        \cup HwInamesOf(lin, trips)
    IN  [in_names |-> [statement |-> STATEMENT_VAR_NAME, inames |-> dom_inames],
         out_names |-> out_names_sched,
         pairs |-> {[statement |-> int_sid, inames |-> env,
                     lex |-> EvalPoint(stmt_inst.lex_points, env)] :
                        env \in InamesDomain(dom_inames, trips)}]

IntSidBefore == 0
\* the after side always tagged 1
IntSidAfterAlwaysOne(sb, sa) == 1
IntSidAfter(sb, sa) == IF sb.insn_id = sa.insn_id THEN 0 ELSE 1

BuildMaps(sb, sa, lin, trips) ==
    LET out_names_sched == GetLexVarNames(sb, sa)
    IN  <<GetMapForStmtInst(sb, IntSidBefore, out_names_sched, lin, trips),
          GetMapForStmtInst(sa, IntSidAfter(sb, sa), out_names_sched, lin, trips)>>

---------------------------------------------------------------------------
\* The lexicographic order map and the statement instance ordering

\* the marker of the before-side copy of a coordinate
BEFORE_MARK == "'"

\* create_lex_order_map(n_dims, after_names): the union over k of
\* (before and after agree on dims [0,k) and before[k] < after[k])
CreateLexOrderMap(n_dims, after_names) ==
    [before_names |->
        [k \in 1..Len(after_names) |-> after_names[k] \o BEFORE_MARK],
     after_names |-> after_names,
     disjuncts |-> [k \in 1..n_dims |-> [eq |-> 1..(k - 1), lt |-> k]]]

\* a lex order map one dimension short of the schedule space
GetLexOrderMapOneDimShort(sb, sa) ==
    CreateLexOrderMap(MaxLexDims(sb, sa) - 1, GetLexVarNames(sb, sa))

GetLexOrderMapForSchedSpace(sb, sa) ==
    CreateLexOrderMap(MaxLexDims(sb, sa), GetLexVarNames(sb, sa))

\* the position of a named dimension in a tuple of names (0 if absent)
DimOf(names, n) ==
    IF \E k \in 1..Len(names) : names[k] = n
    THEN CHOOSE k \in 1..Len(names) : names[k] = n
    ELSE 0

\* (A, B) is in the lex order map; A is named by a_names, B by b_names, and
\* each constraint of the map finds its coordinates by name
InLexOrderMap(m, a_names, A, b_names, B) ==
    \E k \in 1..Len(m.disjuncts) :
        LET d == m.disjuncts[k]
            a(c) == A[DimOf(a_names, m.before_names[c])]
            b(c) == B[DimOf(b_names, m.after_names[c])]
        IN  /\ \A c \in d.eq \cup {d.lt} :
                /\ DimOf(a_names, m.before_names[c]) # 0
                /\ DimOf(b_names, m.after_names[c]) # 0
            /\ \A c \in d.eq : a(c) = b(c)
            /\ a(d.lt) < b(d.lt)

\* the before-side schedule with its lex dimensions marked
MarkedNames(names) == [k \in 1..Len(names) |-> names[k] \o BEFORE_MARK]

\* SIO = before map, then the lex order map, then the inverse of the after map
StatementInstanceOrdering(map_before, map_after, lex_map) ==
    {[before |-> [statement |-> x.statement, inames |-> x.inames],
      after |-> [statement |-> y.statement, inames |-> y.inames]] :
        <<x, y>> \in
            {p \in map_before.pairs \X map_after.pairs :
                InLexOrderMap(lex_map,
                              MarkedNames(map_before.out_names), p[1].lex,
                              map_after.out_names, p[2].lex)}}

---------------------------------------------------------------------------
\* The linearizations tried: every well-nested item sequence of at most
\* MaxLen items over Inames, its statements named in order from StmtIds,
\* with at most one barrier

StmtItems(ns, nb) ==
    (IF ns < Len(StmtIds)
     THEN {RunInstruction(StmtIds[ns + 1])} \cup
          (IF nb THEN {} ELSE {Barrier(StmtIds[ns + 1])})
     ELSE {}) \cup
    (IF nb THEN {} ELSE {Barrier(NoName)})

RECURSIVE GenLin(_, _, _, _)
GenLin(prefix, open, ns, nb) ==
    (IF open = <<>> THEN {prefix} ELSE {}) \cup
    (IF Len(prefix) + Len(open) >= MaxLen
     THEN (IF open = <<>> \/ Len(prefix) >= MaxLen THEN {}
           ELSE GenLin(Append(prefix, LeaveLoop(Last(open))),
                       SubSeq(open, 1, Len(open) - 1), ns, nb))
     ELSE UNION (
        {GenLin(Append(prefix, EnterLoop(i)), Append(open, i), ns, nb) :
            i \in {x \in Inames : \A k \in 1..Len(open) : open[k] # x}}
        \cup
        (IF open = <<>> THEN {}
         ELSE {GenLin(Append(prefix, LeaveLoop(Last(open))),
                      SubSeq(open, 1, Len(open) - 1), ns, nb)})
        \cup
        {GenLin(Append(prefix, it), open,
                IF GetInsnIdFromLinearizationItem(it) = NoName
                THEN ns ELSE ns + 1,
                nb \/ it.kind = "Barrier") :
            it \in StmtItems(ns, nb)}))

Bodies == GenLin(<<>>, <<>>, 0, FALSE)

\* the scheduler wraps the items of a kernel in CallKernel/ReturnFromKernel
Linearizations == {<<CallKernel>> \o b \o <<ReturnFromKernel>> : b \in Bodies}

StmtIdSet == {StmtIds[k] : k \in 1..Len(StmtIds)}

---------------------------------------------------------------------------
\* The kernels of the tests with hardware-tagged inames.  The scheduler makes
\* no loop of a tagged iname, so the linearization has no EnterLoop for it.

\* Scenario B (test_pairwise_schedule_creation_with_hw_par_tags,
\* test_statement_instance_ordering_with_hw_par_tags):
\*   for i, ii, j, jj { stmt_a; stmt_b }   with i: g.0, j: l.1, jj: l.0
ScenarioB ==
    <<CallKernel,
      EnterLoop("ii"),
        RunInstruction("stmt_a"), RunInstruction("stmt_b"),
      LeaveLoop("ii"),
      ReturnFromKernel>>

ScenarioBTags == [i |-> {"g.0"}, j |-> {"l.1"}, jj |-> {"l.0"}]

\* Scenario C (test_sios_and_schedules_with_lbarriers):
\*   for g0, l0, l1 { 0; b0; 1;
\*                    for i { i0; ib0; i1; i2; for j { j0; jb0; j1 } }
\*                    2 }        with g0: g.0, l0: l.0, l1: l.1
ScenarioC ==
    <<CallKernel,
      RunInstruction("0"), Barrier("b0"), RunInstruction("1"),
      EnterLoop("i"),
        RunInstruction("i0"), Barrier("ib0"),
        RunInstruction("i1"), RunInstruction("i2"),
        EnterLoop("j"),
          RunInstruction("j0"), Barrier("jb0"), RunInstruction("j1"),
        LeaveLoop("j"),
      LeaveLoop("i"),
      RunInstruction("2"),
      ReturnFromKernel>>

ScenarioCTags == [g0 |-> {"g.0"}, l0 |-> {"l.0"}, l1 |-> {"l.1"}]

\* the hardware-tagged inames of the kernel a linearization was made from
HwInames(lin) ==
    CASE lin = ScenarioB -> DOMAIN ScenarioBTags
      [] lin = ScenarioC -> DOMAIN ScenarioCTags
      [] OTHER -> {}

---------------------------------------------------------------------------
\* State machine

\* no schedule tree is being made
NoTree ==
    /\ nodes = <<>> /\ build_stack = <<>>
    /\ id_to_insn = <<>> /\ new_schedule = None
    /\ kernel = None /\ schedule = None

\* no domain is being implemented
NoHwAxes ==
    /\ iname_tags = <<>> /\ domain = <<>>
    /\ context = None /\ implemented_domain = None

\* no types are being inferred
NoInference ==
    /\ expect_completion = FALSE /\ writer_map = <<>> /\ sccs = <<>>
    /\ queue = <<>> /\ failed_names = {}
    /\ changed_during_last_queue_run = FALSE
    /\ new_temp_vars = <<>> /\ debug_log = <<>>

\* no pairwise schedule is being built
NoBuilder ==
    /\ before_insn_id = NoName /\ after_insn_id = NoName
    /\ loops_to_ignore = {}
    /\ next_insn_lex_tuple = <<>>
    /\ stmt_added_since_prev_block_at_tier = <<>>
    /\ stmt_instance_set_before = None /\ stmt_instance_set_after = None
    /\ knl = <<>> /\ maps = <<>> /\ previous_query = None

W == Walker(next_insn_lex_tuple, stmt_added_since_prev_block_at_tier,
            stmt_instance_set_before, stmt_instance_set_after)

InitBuilder ==
    /\ idx = 1
    /\ next_insn_lex_tuple = InitWalker.next_insn_lex_tuple
    /\ stmt_added_since_prev_block_at_tier =
            InitWalker.stmt_added_since_prev_block_at_tier
    /\ stmt_instance_set_before = None
    /\ stmt_instance_set_after = None
    /\ pc = "loop"
    /\ error = NoError
    /\ knl = <<>>
    /\ maps = <<>>
    /\ previous_query = None
    /\ NoTree
    /\ NoHwAxes
    /\ NoInference

Init ==
    /\ linearization_items_ordered \in Linearizations
    /\ before_insn_id \in StmtIdSet
    /\ after_insn_id \in StmtIdSet
    /\ loops_to_ignore \in IgnoreChoices
    /\ InitBuilder

Inputs == <<linearization_items_ordered, before_insn_id, after_insn_id,
            loops_to_ignore>>

CurItem == linearization_items_ordered[idx]

\* the loop body has run on CurItem and left the walker as w
Iterate(w) ==
    /\ next_insn_lex_tuple' = w.next_insn_lex_tuple
    /\ stmt_added_since_prev_block_at_tier' =
            w.stmt_added_since_prev_block_at_tier
    /\ stmt_instance_set_before' = w.stmt_instance_set_before
    /\ stmt_instance_set_after' = w.stmt_instance_set_after
    /\ idx' = idx + 1
    /\ pc' = IF ~Continues(CurItem, loops_to_ignore) /\ Breaks(w)
             THEN "pad" ELSE "loop"
    /\ UNCHANGED <<Inputs, error, knl, maps, previous_query,
                   TreeVars, HwVars, InferVars>>

InLoop == pc = "loop" /\ idx <= Len(linearization_items_ordered)

OnEnterLoop ==
    /\ InLoop
    /\ CurItem.kind = "EnterLoop"
    /\ Iterate(EnterLoopStep(W, CurItem, loops_to_ignore))

OnLeaveLoop ==
    /\ InLoop
    /\ CurItem.kind = "LeaveLoop"
    /\ Iterate(LeaveLoopStep(W, CurItem, loops_to_ignore))

OnRunInstructionOrBarrier ==
    /\ InLoop
    /\ CurItem.kind \in {"RunInstruction", "Barrier"}
    /\ Iterate(StmtStep(W, CurItem, before_insn_id, after_insn_id))

OnOtherItem ==
    /\ InLoop
    /\ CurItem.kind \notin {"EnterLoop", "LeaveLoop", "RunInstruction", "Barrier"}
    /\ Iterate(W)

\* the for loop ran out of items
EndOfItems ==
    /\ pc = "loop"
    /\ idx > Len(linearization_items_ordered)
    /\ pc' = "pad"
    /\ UNCHANGED <<Inputs, idx, next_insn_lex_tuple,
                   stmt_added_since_prev_block_at_tier,
                   stmt_instance_set_before, stmt_instance_set_after,
                   error, knl, maps, previous_query, TreeVars, HwVars,
                   InferVars>>

\* max_lex_dims() and the two _pad_lex_tuple_with_zeros calls
PadLexTuples ==
    /\ pc = "pad"
    /\ LET r == PadBoth(W)
       IN  /\ error' = r.error
           /\ stmt_instance_set_before' = r.stmt_instance_set_before
           /\ stmt_instance_set_after' = r.stmt_instance_set_after
           /\ pc' = IF r.error = NoError THEN "constructed" ELSE "error"
    /\ UNCHANGED <<Inputs, idx, next_insn_lex_tuple,
                   stmt_added_since_prev_block_at_tier, knl, maps,
                   previous_query, TreeVars, HwVars, InferVars>>

\* build_maps(knl), for a kernel with loop domains {0 <= iname < trips[iname]},
\* each loop running once or MaxTrip times
OnBuildMaps ==
    /\ pc = "constructed"
    /\ \E trips \in [LoopInames(linearization_items_ordered)
                        \cup HwInames(linearization_items_ordered)
                            -> {1, MaxTrip}] :
        /\ knl' = trips
        /\ maps' = BuildMaps(Get(stmt_instance_set_before),
                             Get(stmt_instance_set_after),
                             linearization_items_ordered, trips)
    /\ pc' = "maps"
    /\ UNCHANGED <<Inputs, idx, next_insn_lex_tuple,
                   stmt_added_since_prev_block_at_tier,
                   stmt_instance_set_before, stmt_instance_set_after, error,
                   previous_query, TreeVars, HwVars, InferVars>>

Next ==
    \/ OnEnterLoop
    \/ OnLeaveLoop
    \/ OnRunInstructionOrBarrier
    \/ OnOtherItem
    \/ EndOfItems
    \/ PadLexTuples
    \/ OnBuildMaps

Spec == Init /\ [][Next]_vars

\* the construction alone: __init__ without a later call of build_maps
NextWalk ==
    \/ OnEnterLoop
    \/ OnLeaveLoop
    \/ OnRunInstructionOrBarrier
    \/ OnOtherItem
    \/ EndOfItems
    \/ PadLexTuples

SpecWalk == Init /\ [][NextWalk]_vars

---------------------------------------------------------------------------
\* Scenario A of the tests (test_pairwise_schedule_creation,
\* test_statement_instance_ordering):
\*   for i { for k { insn_a }  for j { insn_b; insn_c } }  for t { insn_d }

ScenarioA ==
    <<CallKernel,
      EnterLoop("i"),
        EnterLoop("k"), RunInstruction("insn_a"), LeaveLoop("k"),
        EnterLoop("j"), RunInstruction("insn_b"), RunInstruction("insn_c"),
        LeaveLoop("j"),
      LeaveLoop("i"),
      EnterLoop("t"), RunInstruction("insn_d"), LeaveLoop("t"),
      ReturnFromKernel>>

ScenarioAPairs ==
    {<<"insn_a", "insn_b">>, <<"insn_a", "insn_c">>, <<"insn_a", "insn_d">>,
     <<"insn_b", "insn_c">>, <<"insn_b", "insn_d">>, <<"insn_c", "insn_d">>}

InitA ==
    /\ linearization_items_ordered = ScenarioA
    /\ \E p \in ScenarioAPairs :
            before_insn_id = p[1] /\ after_insn_id = p[2]
    /\ loops_to_ignore = {}
    /\ InitBuilder

\* every statement of a pair occurs, so the for loop always ends by break
NextA ==
    \/ OnEnterLoop
    \/ OnLeaveLoop
    \/ OnRunInstructionOrBarrier
    \/ OnOtherItem
    \/ PadLexTuples
    \/ OnBuildMaps

SpecA == InitA /\ [][NextA]_vars

---------------------------------------------------------------------------
\* Scenarios B and C of the tests: the queries of the tests, with no loop to
\* ignore and with the hardware-tagged inames to ignore

ScenarioHwPairs(lin) ==
    IF lin = ScenarioB
    THEN {<<"stmt_a", "stmt_b">>}
    ELSE {<<"j1", "2">>, <<"1", "i0">>}

InitHw ==
    /\ linearization_items_ordered \in {ScenarioB, ScenarioC}
    /\ \E p \in ScenarioHwPairs(linearization_items_ordered) :
            before_insn_id = p[1] /\ after_insn_id = p[2]
    /\ loops_to_ignore \in {{}, HwInames(linearization_items_ordered)}
    /\ InitBuilder

SpecHw == InitHw /\ [][NextA]_vars

---------------------------------------------------------------------------
\* Linearizations with anything after the second target statement: the items
\* of a generated linearization up to the one that completes the pair, then
\* items that repeat the targets or are ill-nested

\* the ids of the statements run by the items 1..k
IdsUpTo(lin, k) ==
    {GetInsnIdFromLinearizationItem(lin[n]) :
        n \in {m \in 1..k : lin[m].kind \in {"RunInstruction", "Barrier"}}}

\* the first item after which both targets have occurred (0 if there is none)
FirstBothCaptured(lin, before_id, after_id) ==
    IF {before_id, after_id} \subseteq IdsUpTo(lin, Len(lin))
    THEN CHOOSE k \in 1..Len(lin) :
            /\ {before_id, after_id} \subseteq IdsUpTo(lin, k)
            /\ ~({before_id, after_id} \subseteq IdsUpTo(lin, k - 1))
    ELSE 0

EarlyExitPairs == {<<"a", "b">>, <<"b", "a">>, <<"a", "a">>}

EarlyExitPrefixes(before_id, after_id) ==
    {SubSeq(l, 1, FirstBothCaptured(l, before_id, after_id)) :
        l \in {m \in Linearizations :
                    FirstBothCaptured(m, before_id, after_id) > 0}}

Suffixes(before_id, after_id) ==
    {<<>>,
     <<RunInstruction(before_id), RunInstruction(after_id)>>,
     <<LeaveLoop("i"), LeaveLoop("i"), LeaveLoop("i")>>,
     <<EnterLoop("j"), RunInstruction(after_id), LeaveLoop("i"),
       RunInstruction(before_id)>>}

InitE ==
    /\ \E p \in EarlyExitPairs :
        /\ before_insn_id = p[1]
        /\ after_insn_id = p[2]
        /\ linearization_items_ordered \in
                {l \o x : l \in EarlyExitPrefixes(p[1], p[2]),
                          x \in Suffixes(p[1], p[2])}
    /\ loops_to_ignore \in IgnoreChoices
    /\ InitBuilder

\* both targets occur, so the for loop always ends by break
NextE ==
    \/ OnEnterLoop
    \/ OnLeaveLoop
    \/ OnRunInstructionOrBarrier
    \/ OnOtherItem
    \/ PadLexTuples

SpecE == InitE /\ [][NextE]_vars

---------------------------------------------------------------------------
\* Several queries on one linearization: a caller makes a builder for a pair
\* and an ignore-set, then another one, and so on (Scenario A, any pair of its
\* statements)

Query(before_id, after_id, ignore) ==
    [before_insn_id |-> before_id, after_insn_id |-> after_id,
     loops_to_ignore |-> ignore]

\* PairwiseScheduleBuilder(...) is called again, with the same list of items
NewQuery ==
    /\ pc \in {"constructed", "maps"}
    /\ before_insn_id' \in IdsUpTo(linearization_items_ordered,
                                   Len(linearization_items_ordered))
    /\ after_insn_id' \in IdsUpTo(linearization_items_ordered,
                                  Len(linearization_items_ordered))
    /\ loops_to_ignore' \in IgnoreChoices
    /\ previous_query' =
            Some(Query(before_insn_id, after_insn_id, loops_to_ignore))
    /\ LET w == NewLocals(W)
       IN  /\ next_insn_lex_tuple' = w.next_insn_lex_tuple
           /\ stmt_added_since_prev_block_at_tier' =
                    w.stmt_added_since_prev_block_at_tier
           /\ stmt_instance_set_before' = w.stmt_instance_set_before
           /\ stmt_instance_set_after' = w.stmt_instance_set_after
    /\ idx' = 1
    /\ pc' = "loop"
    /\ error' = NoError
    /\ knl' = <<>>
    /\ maps' = <<>>
    /\ UNCHANGED <<linearization_items_ordered, TreeVars, HwVars, InferVars>>

InitQ ==
    /\ linearization_items_ordered = ScenarioA
    /\ before_insn_id \in IdsUpTo(ScenarioA, Len(ScenarioA))
    /\ after_insn_id \in IdsUpTo(ScenarioA, Len(ScenarioA))
    /\ loops_to_ignore \in IgnoreChoices
    /\ InitBuilder

NextQ ==
    \/ OnEnterLoop
    \/ OnLeaveLoop
    \/ OnRunInstructionOrBarrier
    \/ OnOtherItem
    \/ PadLexTuples
    \/ OnBuildMaps
    \/ NewQuery

SpecQ == InitQ /\ [][NextQ]_vars

---------------------------------------------------------------------------
\* loopy/schedule/tree.py: the schedule tree and ScheduleTreeBuilder

\* a schedule node.  In the builder `children` holds positions in `nodes`
\* (references to the child objects); in a finished tree it holds the child
\* nodes themselves.  `name` is the name, iname or instruction id of the
\* node, `fields` the other fields of its dataclass, in declaration order.
Node(type, name, children) ==
    [type |-> type, name |-> name, fields |-> <<>>, children |-> children]
Schedule(children) == Node("Schedule", NoName, children)
Function(name, extra_args, extra_inames, children) ==
    [Node("Function", name, children)
        EXCEPT !.fields = <<extra_args, extra_inames>>]
Loop(iname, children) == Node("Loop", iname, children)
InstructionBlock(children) == Node("InstructionBlock", NoName, children)
TreeRunInstruction(insn_id) == Node("RunInstruction", insn_id, <<>>)
TreeBarrier(comment, synchronization_kind, mem_kind, originating_insn_id) ==
    [Node("Barrier", originating_insn_id, <<>>)
        EXCEPT !.fields = <<comment, synchronization_kind, mem_kind>>]

\* sched_item.kernel_name of a CallKernel or ReturnFromKernel item
KernelName(sched_item) == sched_item.kernel_name

\* a ScheduleTreeBuilder; `failed` says that an assert of the last call
\* failed, `returned` is what the last exit_... call returned
ScheduleTreeBuilder(ns, stack) ==
    [nodes |-> ns, build_stack |-> stack, failed |-> FALSE, returned |-> 0]

\* ScheduleTreeBuilder.new()
ScheduleTreeBuilderNew == ScheduleTreeBuilder(<<Schedule(<<>>)>>, <<1>>)

AssertFails(bob) == [bob EXCEPT !.failed = TRUE]

CurrentNode(bob) == bob.nodes[Last(bob.build_stack)]

MakeCurrentNode(bob, node) ==
    [bob EXCEPT !.build_stack = Append(@, node)]

\* self._build_stack.pop()
PopBuildStack(bob) ==
    [bob EXCEPT !.build_stack = SubSeq(@, 1, Len(@) - 1),
                !.returned = Last(bob.build_stack)]

\* if isinstance(self.current_node, InstructionBlock): self._build_stack.pop()
EndInstructionBlock(bob) ==
    IF CurrentNode(bob).type = "InstructionBlock"
    THEN PopBuildStack(bob) ELSE bob

\* self.current_node.children.append(node); the new node is the last of nodes
AppendChild(bob, node) ==
    [bob EXCEPT
        !.nodes = Append([@ EXCEPT ![Last(bob.build_stack)].children =
                                Append(@, Len(bob.nodes) + 1)],
                         node)]

MakeAndEnterFunction(bob, name, extra_args, extra_inames) ==
    LET b == EndInstructionBlock(bob)
    IN  IF CurrentNode(b).type # "Schedule"
        THEN AssertFails(b)
        ELSE MakeCurrentNode(
                AppendChild(b, Function(name, extra_args, extra_inames,
                                        <<>>)),
                Len(b.nodes) + 1)

MakeAndEnterInstructionBlock(bob) ==
    IF CurrentNode(bob).type \notin {"Function", "Loop", "Schedule"}
    THEN AssertFails(bob)
    ELSE MakeCurrentNode(AppendChild(bob, InstructionBlock(<<>>)),
                         Len(bob.nodes) + 1)

MakeAndEnterLoop(bob, iname) ==
    LET b == EndInstructionBlock(bob)
    IN  IF CurrentNode(b).type \notin {"Schedule", "Function", "Loop"}
        THEN AssertFails(b)
        ELSE MakeCurrentNode(AppendChild(b, Loop(iname, <<>>)),
                             Len(b.nodes) + 1)

\* an add_barrier that takes the two kinds in the other order
AddBarrierKindsSwapped(bob, comment, sync_kind, mem_kind, insn_id) ==
    LET b == EndInstructionBlock(bob)
    IN  IF CurrentNode(b).type \notin {"Schedule", "Function", "Loop"}
        THEN AssertFails(b)
        ELSE AppendChild(b, TreeBarrier(comment, mem_kind, sync_kind,
                                        insn_id))

\* an add_run_instruction that ends the current block and opens a new one
AddRunInstructionNewBlockEach(bob, insn_id) ==
    AppendChild(MakeAndEnterInstructionBlock(EndInstructionBlock(bob)),
                TreeRunInstruction(insn_id))

AddRunInstruction(bob, insn_id) ==
    LET b == IF CurrentNode(bob).type # "InstructionBlock"
             THEN MakeAndEnterInstructionBlock(bob)
             ELSE bob
    IN  IF b.failed THEN b
        ELSE AppendChild(b, TreeRunInstruction(insn_id))

AddBarrier(bob, comment, sync_kind, mem_kind, insn_id) ==
    LET b == EndInstructionBlock(bob)
    IN  IF CurrentNode(b).type \notin {"Schedule", "Function", "Loop"}
        THEN AssertFails(b)
        ELSE AppendChild(b, TreeBarrier(comment, sync_kind, mem_kind,
                                        insn_id))

ExitFunction(bob) ==
    LET b == EndInstructionBlock(bob)
    IN  IF CurrentNode(b).type # "Function"
        THEN AssertFails(b) ELSE PopBuildStack(b)

ExitLoop(bob) ==
    LET b == EndInstructionBlock(bob)
    IN  IF CurrentNode(b).type # "Loop"
        THEN AssertFails(b) ELSE PopBuildStack(b)

\* an exit without its assert
ExitNoAssert(bob) == PopBuildStack(EndInstructionBlock(bob))

Exit(bob) ==
    LET b == EndInstructionBlock(bob)
    IN  IF CurrentNode(b).type # "Schedule"
        THEN AssertFails(b) ELSE PopBuildStack(b)

\* the body of the for loop of make_schedule_tree
MakeScheduleTreeStep(bob, sched_item) ==
    CASE sched_item.kind = "CallKernel" ->
            MakeAndEnterFunction(bob, KernelName(sched_item),
                                 sched_item.extra_args,
                                 sched_item.extra_inames)
      [] sched_item.kind = "ReturnFromKernel" ->
            LET b == ExitFunction(bob)
            IN  IF b.failed THEN b
                ELSE IF b.nodes[b.returned].name # KernelName(sched_item)
                THEN AssertFails(b) ELSE b
      [] sched_item.kind = "EnterLoop" ->
            MakeAndEnterLoop(bob, sched_item.iname)
      [] sched_item.kind = "LeaveLoop" ->
            LET b == ExitLoop(bob)
            IN  IF b.failed THEN b
                ELSE IF b.nodes[b.returned].name # sched_item.iname
                THEN AssertFails(b) ELSE b
      [] sched_item.kind = "RunInstruction" ->
            AddRunInstruction(bob, sched_item.insn_id)
      [] sched_item.kind = "Barrier" ->
            AddBarrier(bob, sched_item.comment,
                       sched_item.synchronization_kind,
                       sched_item.mem_kind,
                       sched_item.originating_insn_id)

\* the node at position n with its children in place of their positions
RECURSIVE TreeOf(_, _)
TreeOf(ns, n) ==
    [ns[n] EXCEPT !.children =
        [k \in 1..Len(ns[n].children) |-> TreeOf(ns, ns[n].children[k])]]

---------------------------------------------------------------------------
\* make_schedule_tree(kernel), kernel.schedule being the linearization

AssertionError == [type |-> "AssertionError", args |-> <<>>]

Bob == ScheduleTreeBuilder(nodes, build_stack)

InitTree ==
    /\ linearization_items_ordered \in Linearizations
    /\ idx = 1
    /\ pc = "tree"
    /\ error = NoError
    /\ nodes = ScheduleTreeBuilderNew.nodes
    /\ build_stack = ScheduleTreeBuilderNew.build_stack
    /\ id_to_insn = <<>>
    /\ new_schedule = None
    /\ kernel = None
    /\ schedule = None
    /\ NoBuilder
    /\ NoHwAxes
    /\ NoInference

\* a call of the builder has run and left it as b
TreeIterate(b) ==
    /\ IF b.failed
       THEN /\ pc' = "error"
            /\ error' = AssertionError
            /\ UNCHANGED <<nodes, build_stack, idx>>
       ELSE /\ nodes' = b.nodes
            /\ build_stack' = b.build_stack
            /\ idx' = idx + 1
            /\ UNCHANGED <<pc, error>>
    /\ UNCHANGED <<linearization_items_ordered, BuilderVars, HwVars, InferVars,
                   id_to_insn, new_schedule, kernel, schedule>>

InTreeLoop == pc = "tree" /\ idx <= Len(linearization_items_ordered)

TreeOnCallKernel ==
    /\ InTreeLoop
    /\ CurItem.kind = "CallKernel"
    /\ TreeIterate(MakeScheduleTreeStep(Bob, CurItem))

TreeOnReturnFromKernel ==
    /\ InTreeLoop
    /\ CurItem.kind = "ReturnFromKernel"
    /\ TreeIterate(MakeScheduleTreeStep(Bob, CurItem))

TreeOnEnterLoop ==
    /\ InTreeLoop
    /\ CurItem.kind = "EnterLoop"
    /\ TreeIterate(MakeScheduleTreeStep(Bob, CurItem))

TreeOnLeaveLoop ==
    /\ InTreeLoop
    /\ CurItem.kind = "LeaveLoop"
    /\ TreeIterate(MakeScheduleTreeStep(Bob, CurItem))

TreeOnRunInstruction ==
    /\ InTreeLoop
    /\ CurItem.kind = "RunInstruction"
    /\ TreeIterate(MakeScheduleTreeStep(Bob, CurItem))

TreeOnBarrier ==
    /\ InTreeLoop
    /\ CurItem.kind = "Barrier"
    /\ TreeIterate(MakeScheduleTreeStep(Bob, CurItem))

\* kernel.copy(schedule=bob.exit())
TreeExit ==
    /\ pc = "tree"
    /\ idx > Len(linearization_items_ordered)
    /\ LET b == Exit(Bob)
       IN  IF b.failed
           THEN /\ pc' = "error"
                /\ error' = AssertionError
                /\ UNCHANGED <<nodes, build_stack>>
           ELSE /\ pc' = "tree_made"
                /\ nodes' = b.nodes
                /\ build_stack' = b.build_stack
                /\ UNCHANGED error
    /\ UNCHANGED <<linearization_items_ordered, idx, BuilderVars, HwVars,
                   InferVars,
                   id_to_insn, new_schedule, kernel, schedule>>

\* kernel.schedule after make_schedule_tree
KernelSchedule == TreeOf(nodes, 1)

---------------------------------------------------------------------------
\* homogenize_instruction_blocks(kernel)

\* an instruction of the kernel, as far as the homogenizer reads it
Insn(within_inames, predicates) ==
    [within_inames |-> within_inames, predicates |-> predicates]

\* the instructions tried: they differ in within_inames or in predicates
InsnChoices == {Insn({}, {}), Insn({"i"}, {}), Insn({}, {"p"})}

\* a similarity test that does not look at the predicates
AreInsnsSimilarByInames(insns, insn1_id, insn2_id) ==
    insns[insn1_id].within_inames = insns[insn2_id].within_inames

\* InstructionBlockHomogenizer._are_insns_similar
AreInsnsSimilar(insns, insn1_id, insn2_id) ==
    /\ insns[insn1_id].within_inames = insns[insn2_id].within_inames
    /\ insns[insn1_id].predicates = insns[insn2_id].predicates

\* the for loop of map_instruction_block from child k on, and the append
\* after it
RECURSIVE MapInstructionBlockFrom(_, _, _, _, _)
MapInstructionBlockFrom(insns, children, k, insn_blocks, similar_run_insns) ==
    IF k > Len(children)
    THEN Append(insn_blocks, InstructionBlock(similar_run_insns))
    ELSE LET run_insn == children[k]
         IN  IF similar_run_insns # <<>>
             THEN IF AreInsnsSimilar(insns, Last(similar_run_insns).name,
                                     run_insn.name)
                  THEN MapInstructionBlockFrom(
                            insns, children, k + 1, insn_blocks,
                            Append(similar_run_insns, run_insn))
                  ELSE MapInstructionBlockFrom(
                            insns, children, k + 1,
                            Append(insn_blocks,
                                   InstructionBlock(similar_run_insns)),
                            <<run_insn>>)
             ELSE MapInstructionBlockFrom(
                       insns, children, k + 1, insn_blocks, <<run_insn>>)

\* InstructionBlockHomogenizer.map_instruction_block: the contents of the
\* GroupedChildren it returns
MapInstructionBlock(insns, expr) ==
    MapInstructionBlockFrom(insns, expr.children, 1, <<>>, <<>>)

\* IdentityMapper.combine on a list of lists of nodes
RECURSIVE Combine(_)
Combine(values) ==
    IF values = <<>> THEN <<>> ELSE Head(values) \o Combine(Tail(values))

\* InstructionBlockHomogenizer(kernel)(expr): the nodes that take the place
\* of expr in its parent
RECURSIVE HomogenizerRec(_, _)
HomogenizerRec(insns, expr) ==
    CASE expr.type = "InstructionBlock" -> MapInstructionBlock(insns, expr)
      [] expr.type \in {"Schedule", "Function", "Loop"} ->
            <<[expr EXCEPT !.children =
                   Combine([k \in 1..Len(expr.children) |->
                                HomogenizerRec(insns, expr.children[k])])]>>
      [] OTHER -> <<expr>>

\* a homogenization that leaves the instruction blocks as they are
HomogenizeNothing(insns, sched) == sched

\* InstructionBlockHomogenizer(kernel)(kernel.schedule)
HomogenizeInstructionBlocks(insns, sched) == HomogenizerRec(insns, sched)[1]

\* the instruction ids of the linearization
InsnIds(lin) ==
    {lin[k].insn_id : k \in {n \in 1..Len(lin) :
                                lin[n].kind = "RunInstruction"}}

\* homogenize_instruction_blocks(kernel), for a kernel with these instructions
OnHomogenize ==
    /\ pc = "tree_made"
    /\ id_to_insn' \in [InsnIds(linearization_items_ordered) -> InsnChoices]
    /\ new_schedule' =
            Some(HomogenizeInstructionBlocks(id_to_insn', KernelSchedule))
    /\ pc' = "homogenized"
    /\ UNCHANGED <<linearization_items_ordered, idx, error, nodes,
                   build_stack, kernel, schedule, BuilderVars, HwVars,
                   InferVars>>

NextTree ==
    \/ TreeOnCallKernel
    \/ TreeOnReturnFromKernel
    \/ TreeOnEnterLoop
    \/ TreeOnLeaveLoop
    \/ TreeOnRunInstruction
    \/ TreeOnBarrier
    \/ TreeExit
    \/ OnHomogenize

SpecTree == InitTree /\ [][NextTree]_vars

---------------------------------------------------------------------------
\* make_schedule_tree on any flat schedule, well-nested or not.  The for loop
\* reads kernel.schedule item by item: linearization_items_ordered holds the
\* items read so far, and the next item, if there is one, is any item.

\* the items a flat schedule is made of
SchedItemChoices ==
    { CallKernelOf("knl", <<"arg">>, <<"i">>),
      ReturnFromKernelOf("knl"), ReturnFromKernelOf("other"),
      EnterLoop("i"), EnterLoop("j"), LeaveLoop("i"), LeaveLoop("j"),
      RunInstruction("a"), RunInstruction("b"),
      BarrierOf("for b", "global", "local", "b") }

InitSched ==
    /\ linearization_items_ordered = <<>>
    /\ idx = 1
    /\ pc = "tree"
    /\ error = NoError
    /\ nodes = ScheduleTreeBuilderNew.nodes
    /\ build_stack = ScheduleTreeBuilderNew.build_stack
    /\ id_to_insn = <<>>
    /\ new_schedule = None
    /\ kernel = None
    /\ schedule = None
    /\ NoBuilder
    /\ NoHwAxes
    /\ NoInference

\* the iterator over kernel.schedule yields one more item
NextSchedItem ==
    /\ pc = "tree"
    /\ idx > Len(linearization_items_ordered)
    /\ Len(linearization_items_ordered) < MaxSchedLen
    /\ \E sched_item \in SchedItemChoices :
            linearization_items_ordered' =
                Append(linearization_items_ordered, sched_item)
    /\ UNCHANGED <<idx, pc, error, BuilderVars, TreeVars, HwVars, InferVars>>

NextSched ==
    \/ NextSchedItem
    \/ TreeOnCallKernel
    \/ TreeOnReturnFromKernel
    \/ TreeOnEnterLoop
    \/ TreeOnLeaveLoop
    \/ TreeOnRunInstruction
    \/ TreeOnBarrier
    \/ TreeExit

SpecSched == InitSched /\ [][NextSched]_vars

---------------------------------------------------------------------------
\* insert_predicates_into_schedule(kernel), for kernels without
\* hardware-tagged inames and without slab increments, the domain of a loop
\* being a set of values of its iname alone

PolyhedralLoop(iname, children, dom) ==
    [Node("PolyhedralLoop", iname, children) EXCEPT !.fields = <<dom>>]
For(iname, lower_bound, upper_bound, step, children) ==
    [Node("For", iname, children)
        EXCEPT !.fields = <<lower_bound, upper_bound, step>>]
If(condition, children) ==
    [Node("If", NoName, children) EXCEPT !.fields = <<condition>>]

RuntimeError == [type |-> "RuntimeError",
                 args |-> <<"At this point, all loops should have resolved as polyhedral loops.">>]
LoopyError == [type |-> "LoopyError", args |-> <<"cannot handle expressions">>]

\* what a mapper leaves in the place of a node whose method raised exc: the
\* exception goes up to the caller of the mapper
Raised(exc) == Node("Raised", exc.type, <<>>)

\* the exceptions raised in a tree, in the order of the traversal
RECURSIVE RaisedIn(_)
RaisedIn(node) ==
    IF node.type = "Raised"
    THEN <<node.name>>
    ELSE Combine([c \in 1..Len(node.children) |-> RaisedIn(node.children[c])])

\* an iname of the kernels tried, its tags and its domain: a strided loop
\* without tag, the same unrolled, a vectorized loop from 0 and one from 1
InameChoices ==
    { [tags |-> {},               dom |-> {0, 2}],
      [tags |-> {"UnrollTag"},    dom |-> {0, 2}],
      [tags |-> {"VectorizeTag"}, dom |-> {0, 1}],
      [tags |-> {"VectorizeTag"}, dom |-> {1, 2}] }

\* the kernels tried for a linearization
KernelChoices(lin) ==
    { [iname_to_tags |-> [n \in LoopInames(lin) |-> c[n].tags],
       inames_domain |-> [n \in LoopInames(lin) |-> c[n].dom]] :
        c \in [LoopInames(lin) -> InameChoices] }

\* kernel.iname_tags_of_type(iname, tag_types)
IterTagsOfType(k, iname, tag_types) == k.iname_to_tags[iname] \cap tag_types

\* static_min_of_pw_aff(domain.dim_min(0)), static_max_of_pw_aff(domain.dim_max(0))
DimMin(dom) == CHOOSE v \in dom : \A u \in dom : v <= u
DimMax(dom) == CHOOSE v \in dom : \A u \in dom : v >= u

\* a condition is the set of its constraints; is_universe() is "no constraint"
IsUniverse(cond) == cond = {}

\* _align_and_gist(domain.affine_hull(), make_slab(space, iname, lb, ub + 1)):
\* what the domain constrains besides its bounds
InnerCondition(dom) ==
    IF dom = DimMin(dom)..DimMax(dom) THEN {} ELSE {"stride"}

\* _wrap_in_if(cond, nodes)
WrapInIf(cond, children) ==
    IF IsUniverse(cond) THEN children ELSE <<If(cond, children)>>

\* a loopifier whose map_loop is the one of IdentityMapper
RECURSIVE IdentityMapperRec(_, _)
IdentityMapperRec(k, expr) ==
    <<[expr EXCEPT !.children =
          Combine([c \in 1..Len(expr.children) |->
                      IdentityMapperRec(k, expr.children[c])])]>>

\* PolyhedronLoopifier(kernel)(expr, context): the nodes that take the place
\* of expr in its parent
RECURSIVE PolyhedronLoopifierRec(_, _)
PolyhedronLoopifierRec(k, expr) ==
    LET children ==
            Combine([c \in 1..Len(expr.children) |->
                        PolyhedronLoopifierRec(k, expr.children[c])])
    IN  CASE expr.type = "Loop" ->
                <<PolyhedralLoop(expr.name, children,
                                 k.inames_domain[expr.name])>>
          [] expr.type = "PolyhedralLoop" ->
                <<PolyhedralLoop(expr.name, children, expr.fields[1])>>
          [] expr.type \in {"Schedule", "Function", "InstructionBlock"} ->
                <<[expr EXCEPT !.children = children]>>
          [] expr.type \in {"RunInstruction", "Barrier"} -> <<expr>>
          [] OTHER -> <<Raised(LoopyError)>>

\* UnvectorizableInamesCollector(kernel)(expr), the instructions of the
\* kernel being assignments that vectorize
RECURSIVE UnvectorizableInamesCollector(_, _, _)
UnvectorizableInamesCollector(k, insns, expr) ==
    LET of_children ==
            UNION {UnvectorizableInamesCollector(k, insns, expr.children[c]) :
                        c \in 1..Len(expr.children)}
    IN  CASE expr.type = "PolyhedralLoop" ->
                IF /\ IterTagsOfType(k, expr.name, {"VectorizeTag"}) # {}
                   /\ \/ DimMin(expr.fields[1]) # 0
                      \/ \E c \in 1..Len(expr.children) :
                            \/ expr.children[c].type # "InstructionBlock"
                            \/ \E r \in 1..Len(expr.children[c].children) :
                                 insns[expr.children[c].children[r].name]
                                    .predicates # {}
                THEN {expr.name}
                ELSE of_children
          [] expr.type \in {"RunInstruction", "Barrier"} -> {}
          [] OTHER -> of_children

\* the loop of Unroller.map_polyhedral_loop from i on: one loop per value of
\* the iname that is in the domain
RECURSIVE UnrollFrom(_, _, _, _, _, _)
UnrollFrom(iname, children, dom, lbound, size, i) ==
    IF i >= size
    THEN <<>>
    ELSE LET unrll_dom == (lbound + i)..(lbound + i) \cap dom
         IN  (IF unrll_dom = {}
              THEN <<>>
              ELSE <<PolyhedralLoop(iname, children, unrll_dom)>>)
             \o UnrollFrom(iname, children, dom, lbound, size, i + 1)

\* Unroller(kernel, extra_unroll_inames)(expr, context)
RECURSIVE UnrollerRec(_, _, _)
UnrollerRec(k, extra_unroll_inames, expr) ==
    LET children ==
            Combine([c \in 1..Len(expr.children) |->
                        UnrollerRec(k, extra_unroll_inames, expr.children[c])])
    IN  CASE expr.type = "PolyhedralLoop" ->
                IF \/ IterTagsOfType(k, expr.name,
                                     {"UnrolledIlpTag", "UnrollTag"}) # {}
                   \/ expr.name \in extra_unroll_inames
                THEN LET dom == expr.fields[1]
                         ubound == DimMax(dom)
                         lbound == DimMin(dom)
                         size == ubound - lbound + 1
                     IN  UnrollFrom(expr.name, children, dom, lbound, size, 0)
                ELSE <<PolyhedralLoop(expr.name, children, expr.fields[1])>>
          [] expr.type = "Loop" -> <<Raised(RuntimeError)>>
          [] expr.type \in {"Schedule", "Function", "InstructionBlock"} ->
                <<[expr EXCEPT !.children = children]>>
          [] expr.type \in {"RunInstruction", "Barrier"} -> <<expr>>
          [] OTHER -> <<Raised(LoopyError)>>

\* PredicateInsertionMapper(kernel)(expr, context)
RECURSIVE PredicateInsertionRec(_, _, _)
PredicateInsertionRec(k, insns, expr) ==
    LET children ==
            Combine([c \in 1..Len(expr.children) |->
                        PredicateInsertionRec(k, insns, expr.children[c])])
    IN  CASE expr.type = "InstructionBlock" ->
                LET inames_sets ==
                        {insns[expr.children[c].name].within_inames :
                            c \in 1..Len(expr.children)}
                    predicates_sets ==
                        {insns[expr.children[c].name].predicates :
                            c \in 1..Len(expr.children)}
                IN  IF \/ Cardinality(inames_sets) # 1
                       \/ Cardinality(predicates_sets) # 1
                    THEN <<Raised(AssertionError)>>
                    ELSE LET predicates == CHOOSE p \in predicates_sets : TRUE
                             new_insn_block == InstructionBlock(children)
                         IN  IF predicates # {}
                             THEN <<If(predicates, <<new_insn_block>>)>>
                             ELSE <<new_insn_block>>
          [] expr.type = "PolyhedralLoop" ->
                LET dom == expr.fields[1]
                    lb == DimMin(dom)
                    ub == DimMax(dom)
                    step == 1
                IN  <<For(expr.name, lb, ub, step,
                          WrapInIf(InnerCondition(dom), children))>>
          [] expr.type = "Loop" ->
                <<PolyhedralLoop(expr.name, children,
                                 k.inames_domain[expr.name])>>
          [] expr.type \in {"Schedule", "Function"} ->
                <<[expr EXCEPT !.children = children]>>
          [] expr.type \in {"RunInstruction", "Barrier"} -> <<expr>>
          [] OTHER -> <<Raised(LoopyError)>>

\* a pass has returned result, or has raised
PassDone(result, done) ==
    LET raised == RaisedIn(result)
    IN  IF raised # <<>>
        THEN /\ pc' = "error"
             /\ error' = CASE raised[1] = "RuntimeError" -> RuntimeError
                           [] raised[1] = "LoopyError" -> LoopyError
                           [] OTHER -> AssertionError
             /\ UNCHANGED schedule
        ELSE /\ pc' = done
             /\ schedule' = Some(result)
             /\ UNCHANGED error

\* schedule = PolyhedronLoopifier(kernel)(kernel.schedule), kernel being the
\* homogenized kernel
OnLoopify ==
    /\ pc = "homogenized"
    /\ kernel' \in KernelChoices(linearization_items_ordered)
    /\ PassDone(PolyhedronLoopifierRec(kernel', Get(new_schedule))[1],
                "loopified")
    /\ UNCHANGED <<linearization_items_ordered, idx, nodes, build_stack,
                   id_to_insn, new_schedule, BuilderVars, HwVars, InferVars>>

\* unvectorizable_inames = UnvectorizableInamesCollector(kernel)(schedule)
\* schedule = Unroller(kernel, unvectorizable_inames)(schedule)
OnUnroll ==
    /\ pc = "loopified"
    /\ LET unvectorizable_inames ==
               UnvectorizableInamesCollector(kernel, id_to_insn,
                                             Get(schedule))
       IN  PassDone(UnrollerRec(kernel, unvectorizable_inames,
                                Get(schedule))[1],
                    "unrolled")
    /\ UNCHANGED <<linearization_items_ordered, idx, nodes, build_stack,
                   id_to_insn, new_schedule, kernel, BuilderVars, HwVars,
                   InferVars>>

\* schedule = PredicateInsertionMapper(kernel)(schedule)
OnInsertPredicates ==
    /\ pc = "unrolled"
    /\ PassDone(PredicateInsertionRec(kernel, id_to_insn, Get(schedule))[1],
                "predicates_inserted")
    /\ UNCHANGED <<linearization_items_ordered, idx, nodes, build_stack,
                   id_to_insn, new_schedule, kernel, BuilderVars, HwVars,
                   InferVars>>

NextPred ==
    \/ TreeOnCallKernel
    \/ TreeOnReturnFromKernel
    \/ TreeOnEnterLoop
    \/ TreeOnLeaveLoop
    \/ TreeOnRunInstruction
    \/ TreeOnBarrier
    \/ TreeExit
    \/ OnHomogenize
    \/ OnLoopify
    \/ OnUnroll
    \/ OnInsertPredicates

\* make_schedule_tree starts on a linearization of at most MaxPredLen items
\* between CallKernel and ReturnFromKernel
InitPred ==
    /\ InitTree
    /\ Len(linearization_items_ordered) <= MaxPredLen + 2

SpecPred == InitPred /\ [][NextPred]_vars

---------------------------------------------------------------------------
\* _implement_hw_axes_in_domains(implemented_domain, domain, kernel,
\*                               gsize, lsize)

GroupIndexTag(axis) == [type |-> "GroupIndexTag", axis |-> axis]
LocalIndexTag(axis) == [type |-> "LocalIndexTag", axis |-> axis]

\* the inames of the kernels whose domains are implemented
HwDimNames == {"i", "j", "k"}

\* the axis tags one iname of these kernels may carry: none, one, or two
AxisTagChoices ==
    { {},
      {GroupIndexTag(0)}, {LocalIndexTag(0)}, {LocalIndexTag(1)},
      {GroupIndexTag(0), LocalIndexTag(0)},
      {LocalIndexTag(0), LocalIndexTag(1)} }

\* gsize and lsize of the enclosing function, one size per axis
\* (axis a is element a + 1)
GridSizeChoices ==
    { [gsize |-> <<4>>, lsize |-> <<2, 3>>],
      [gsize |-> <<3>>, lsize |-> <<4, 1>>] }

\* the dimension names of a domain, in the order of domain.get_var_dict()
DomainChoices ==
    { d \in UNION { [1..n -> HwDimNames] : n \in 1..Cardinality(HwDimNames) } :
        \A a, b \in DOMAIN d : a # b => d[a] # d[b] }

ValueError == [type |-> "ValueError",
               args |-> <<"too many values to unpack (expected 1)">>]

\* kernel.iname_tags_of_type(dim_name, AxisTag)
InameTagsOfType(tags, dim_name) == tags[dim_name]

\* get_all_inames_tagged_with(kernel, AxisTag)
GetAllInamesTaggedWith(tags) == { n \in DOMAIN tags : tags[n] # {} }

\* implemented_domain.get_var_dict(): the names the set constrains
GetVarDict(impl) == { s.name : s \in impl }

\* static_min_of_pw_aff(kernel.get_iname_bounds(dim_name).lower_bound_pw_aff):
\* the domains of these kernels are {0 <= iname < p}
LowerBound(dim_name) == 0

\* make_slab(space, dim_name, start, stop): start <= dim_name < stop
MakeSlab(dim_name, start, stop) ==
    [name |-> dim_name, start |-> start, stop |-> stop]

\* an unpacking that takes some tag of the set whatever their number
UnpackAnyTag(tag_set) == Some(CHOOSE t \in tag_set : TRUE)

\* "tag, = tag_set": the only element, None standing for the ValueError
\* the unpacking of a set of another size raises
UnpackSingleTag(tag_set) ==
    IF Cardinality(tag_set) = 1
    THEN Some(CHOOSE t \in tag_set : TRUE)
    ELSE None

\* the size the tag selects
HwAxisSize(tag, gsize, lsize) ==
    IF tag.type = "GroupIndexTag"
    THEN gsize[tag.axis + 1]
    ELSE lsize[tag.axis + 1]

\* the body of the loop for a hardware dimension that is not implemented yet
ImplementHwAxis(impl, dim_name, tags, gsize, lsize) ==
    LET unpacked == UnpackSingleTag(InameTagsOfType(tags, dim_name))
    IN  IF unpacked = None
        THEN [failed |-> TRUE, error |-> ValueError,
              implemented_domain |-> impl]
        ELSE LET tag == unpacked[1]
                 lbound == LowerBound(dim_name)
                 size == HwAxisSize(tag, gsize, lsize)
             IN  IF tag.type \notin {"GroupIndexTag", "LocalIndexTag"}
                 THEN [failed |-> TRUE, error |-> AssertionError,
                       implemented_domain |-> impl]
                 ELSE [failed |-> FALSE, error |-> NoError,
                       implemented_domain |->
                           impl \cup {MakeSlab(dim_name, lbound,
                                               lbound + size)}]

\* the implemented domains a caller can hold: the hardware inames in it were
\* put there by earlier calls of this function that returned
RECURSIVE ImplementedBefore(_, _, _, _)
ImplementedBefore(names, tags, gsize, lsize) ==
    IF names = {}
    THEN {}
    ELSE LET n == CHOOSE x \in names : TRUE
         IN  ImplementHwAxis(
                 ImplementedBefore(names \ {n}, tags, gsize, lsize),
                 n, tags, gsize, lsize).implemented_domain

InitAxes ==
    /\ iname_tags \in [HwDimNames -> AxisTagChoices]
    /\ domain \in DomainChoices
    /\ \E grid \in GridSizeChoices :
       \E before \in SUBSET { n \in HwDimNames :
                                Cardinality(iname_tags[n]) = 1 } :
            context = [implemented_domain |->
                           ImplementedBefore(before, iname_tags,
                                             grid.gsize, grid.lsize),
                       gsize |-> grid.gsize,
                       lsize |-> grid.lsize]
    /\ implemented_domain = context.implemented_domain
    /\ idx = 1
    /\ pc = "hw"
    /\ error = NoError
    /\ linearization_items_ordered = <<>>
    /\ NoBuilder
    /\ NoTree
    /\ NoInference

InHwLoop == pc = "hw" /\ idx <= Len(domain)

\* "if dim_name in all_hw_inames" is false
HwOtherDim ==
    /\ InHwLoop
    /\ domain[idx] \notin GetAllInamesTaggedWith(iname_tags)
    /\ idx' = idx + 1
    /\ UNCHANGED <<pc, error, implemented_domain>>
    /\ UNCHANGED <<iname_tags, domain, context>>
    /\ UNCHANGED <<linearization_items_ordered, BuilderVars, TreeVars,
                   InferVars>>

\* "this hardware dim is already implemented => ignore"
HwAlreadyImplemented ==
    /\ InHwLoop
    /\ domain[idx] \in GetAllInamesTaggedWith(iname_tags)
    /\ domain[idx] \in GetVarDict(implemented_domain)
    /\ idx' = idx + 1
    /\ UNCHANGED <<pc, error, implemented_domain>>
    /\ UNCHANGED <<iname_tags, domain, context>>
    /\ UNCHANGED <<linearization_items_ordered, BuilderVars, TreeVars,
                   InferVars>>

\* the hardware dim is constrained to its axis, or its tags are rejected
HwImplementDim ==
    /\ InHwLoop
    /\ domain[idx] \in GetAllInamesTaggedWith(iname_tags)
    /\ domain[idx] \notin GetVarDict(implemented_domain)
    /\ LET r == ImplementHwAxis(implemented_domain, domain[idx], iname_tags,
                                context.gsize, context.lsize)
       IN  IF r.failed
           THEN /\ pc' = "error"
                /\ error' = r.error
                /\ UNCHANGED <<idx, implemented_domain>>
           ELSE /\ implemented_domain' = r.implemented_domain
                /\ idx' = idx + 1
                /\ UNCHANGED <<pc, error>>
    /\ UNCHANGED <<iname_tags, domain, context>>
    /\ UNCHANGED <<linearization_items_ordered, BuilderVars, TreeVars,
                   InferVars>>

\* "return implemented_domain.params()": the set has no set dimensions
HwReturn ==
    /\ pc = "hw"
    /\ idx > Len(domain)
    /\ pc' = "hw_returned"
    /\ UNCHANGED <<idx, error, implemented_domain>>
    /\ UNCHANGED <<iname_tags, domain, context>>
    /\ UNCHANGED <<linearization_items_ordered, BuilderVars, TreeVars,
                   InferVars>>

NextAxes ==
    \/ HwOtherDim
    \/ HwAlreadyImplemented
    \/ HwImplementDim
    \/ HwReturn

SpecAxes == InitAxes /\ [][NextAxes]_vars

---------------------------------------------------------------------------
\* infer_unknown_types_for_a_single_kernel(kernel, program_callables_info,
\*                                         expect_completion)
\* for kernels whose instructions are assignments and whose names of unknown
\* type are temporaries that are no parameters

\* the names of unknown type (names_for_type_inference)
InferNames == {"x", "y", "z"}

\* numpy dtypes by rank: combining two of them gives the one of higher rank
INT32 == 1
FLOAT64 == 2

\* the expression of a writer instruction, as far as type inference reads it:
\* the dtype of its leaves of known type put together (None: it has none) and
\* the names of unknown type it reads
Expr(dtype, read) == [dtype |-> dtype, read |-> read]

\* the expressions tried: a constant, or one variable of unknown type
ExprChoices ==
    {Expr(Some(INT32), {}), Expr(Some(FLOAT64), {})} \cup
    {Expr(None, {n}) : n \in InferNames}

\* the writers of a name: at most MaxWriters expressions
WriterChoices == {w \in SUBSET ExprChoices : Cardinality(w) <= MaxWriters}

\* dep_graph[written_var]
DepGraph(writers, written_var) ==
    UNION {e.read : e \in writers[written_var]} \cap InferNames

\* the names written_var depends on through at most n dependencies
RECURSIVE DependsWithin(_, _, _)
DependsWithin(writers, written_var, n) ==
    IF n = 0
    THEN {written_var}
    ELSE LET near == DependsWithin(writers, written_var, n - 1)
         IN  near \cup UNION {DepGraph(writers, v) : v \in near}

\* the lists compute_sccs(dep_graph) may return that hold the names in the
\* order p: the strongly connected components, a component after those it
\* depends on
ComputeSccsInOrder(writers, p) ==
    LET n == Len(p)
        reach == [a \in InferNames |-> DependsWithin(writers, a, n)]
        \* c[k] is the number of the chain that holds position k
        Cuts == {c \in [1..n -> 1..n] :
                    /\ c[1] = 1
                    /\ \A k \in 1..(n - 1) : c[k + 1] \in {c[k], c[k] + 1}}
        Chains(c) ==
            [i \in 1..c[n] |->
                LET ks == {k \in 1..n : c[k] = i}
                    lo == CHOOSE k \in ks : \A m \in ks : k <= m
                IN  [j \in 1..Cardinality(ks) |-> p[lo + j - 1]]]
    IN  {Chains(c) : c \in
            {c \in Cuts :
                \A a, b \in 1..n :
                    /\ (c[a] = c[b]) <=>
                            (p[b] \in reach[p[a]] /\ p[a] \in reach[p[b]])
                    /\ (c[a] < c[b]) => p[b] \notin reach[p[a]]}}

\* the lists compute_sccs(dep_graph) may return
ComputeSccs(writers) ==
    LET n == Cardinality(InferNames)
    IN  UNION {ComputeSccsInOrder(writers, p) :
                p \in {q \in [1..n -> InferNames] :
                            \A a, b \in 1..n : a # b => q[a] # q[b]}}

\* TypeInferenceMapper.combine(dtype_sets): a list of no or one dtype
CombineDtypes(dtype_sets) ==
    LET dtypes == {d[1] : d \in {ds \in dtype_sets : ds # <<>>}}
    IN  IF dtypes = {}
        THEN <<>>
        ELSE <<CHOOSE d \in dtypes : \A o \in dtypes : d >= o>>

\* type_inf_mapper(expr, return_dtype_set=True): map_variable returns [] for
\* a name whose dtype is None
InferExprType(expr, dtypes) ==
    CombineDtypes({expr.dtype} \cup {dtypes[n] : n \in expr.read})

\* a variant that returns four values when there is no writer
InferVarTypeOfFour(writers, dtypes, var_name) ==
    [result |->
        CombineDtypes({InferExprType(e, dtypes) : e \in writers[var_name]}),
     length |-> 4]

\* what _infer_var_type returns: `result` and the length of the tuple
InferVarType(writers, dtypes, var_name) ==
    LET dtype_sets == {InferExprType(e, dtypes) : e \in writers[var_name]}
    IN  IF writers[var_name] = {}
        THEN [result |-> <<>>, length |-> 3]
        ELSE [result |-> CombineDtypes(dtype_sets), length |-> 4]

UnpackError == [type |-> "ValueError",
                args |-> <<"not enough values to unpack (expected 4, got 3)">>]
CouldNotDetermineType(name) ==
    [type |-> "LoopyError",
     args |-> <<"could not determine type of", name>>]

\* a line of the debug output: the outcome for a name of chain number chain
LogEntry(chain, name, success, changed) ==
    [chain |-> chain, name |-> name, success |-> success, changed |-> changed]

\* the condition "while queue"
LoopContinuesWhileQueue(q, changed) == q # <<>>
\* the condition of the while loop
LoopContinues(q, changed) == q # <<>> \/ changed

\* failed_names after a success
FailedNamesKept(failed) == failed
ResetFailureMarkers(failed) == {}

InitInfer ==
    /\ writer_map \in [InferNames -> WriterChoices]
    \* the names are called x, y, z in the order compute_sccs lists them
    /\ sccs \in ComputeSccsInOrder(writer_map, <<"x", "y", "z">>)
    /\ expect_completion \in BOOLEAN
    /\ idx = 1
    /\ queue = <<>>
    /\ failed_names = {}
    /\ changed_during_last_queue_run = FALSE
    /\ new_temp_vars = [n \in InferNames |-> None]
    /\ debug_log = <<>>
    /\ pc = "for"
    /\ error = NoError
    /\ linearization_items_ordered = <<>>
    /\ NoBuilder
    /\ NoTree
    /\ NoHwAxes

var_chain == sccs[idx]

\* "if not queue and changed_during_last_queue_run" holds
Refilling == queue = <<>> /\ changed_during_last_queue_run

\* the single variable of the chain does not depend on itself
SingleVarWithoutSelfDependency ==
    /\ Len(var_chain) = 1
    /\ var_chain[1] \notin DepGraph(writer_map, var_chain[1])

\* queue and flag when "name = queue.pop(0)" is reached
QueueAtPop == IF Refilling THEN var_chain ELSE queue
ChangedAtPop == IF Refilling THEN FALSE ELSE changed_during_last_queue_run
item_name == Head(QueueAtPop)
Inferred == InferVarType(writer_map, new_temp_vars, item_name)

\* the for loop takes the next chain
NextVarChain ==
    /\ pc = "for"
    /\ idx <= Len(sccs)
    /\ changed_during_last_queue_run' = FALSE
    /\ queue' = var_chain
    /\ failed_names' = {}
    /\ pc' = "while"
    /\ UNCHANGED <<idx, error, expect_completion, writer_map, sccs,
                   new_temp_vars, debug_log>>
    /\ UNCHANGED <<linearization_items_ordered, BuilderVars, TreeVars, HwVars>>

\* the for loop is over: the kernel is returned with the dtypes found
InferReturn ==
    /\ pc = "for"
    /\ idx > Len(sccs)
    /\ pc' = "inferred"
    /\ UNCHANGED <<idx, error, InferVars>>
    /\ UNCHANGED <<linearization_items_ordered, BuilderVars, TreeVars, HwVars>>

\* the while loop of a chain ends, by its condition or by a break
EndOfChain ==
    /\ idx' = idx + 1
    /\ pc' = "for"

\* the condition of the while loop is false
WhileExit ==
    /\ pc = "while"
    /\ ~LoopContinues(queue, changed_during_last_queue_run)
    /\ EndOfChain
    /\ UNCHANGED <<error, InferVars>>
    /\ UNCHANGED <<linearization_items_ordered, BuilderVars, TreeVars, HwVars>>

\* "the type is known after a single iteration": break
SingleVarBreak ==
    /\ pc = "while"
    /\ LoopContinues(queue, changed_during_last_queue_run)
    /\ Refilling
    /\ SingleVarWithoutSelfDependency
    /\ changed_during_last_queue_run' = FALSE
    /\ EndOfChain
    /\ UNCHANGED <<error, expect_completion, writer_map, sccs, queue,
                   failed_names, new_temp_vars, debug_log>>
    /\ UNCHANGED <<linearization_items_ordered, BuilderVars, TreeVars, HwVars>>

\* an iteration of the while loop reaches "name = queue.pop(0)"
InLoopBody ==
    /\ pc = "while"
    /\ LoopContinues(queue, changed_during_last_queue_run)
    /\ ~(Refilling /\ SingleVarWithoutSelfDependency)

\* _infer_var_type returns three values: the assignment to four targets
\* raises
OnUnpackError ==
    /\ InLoopBody
    /\ Inferred.length # 4
    /\ queue' = Tail(QueueAtPop)
    /\ changed_during_last_queue_run' = ChangedAtPop
    /\ pc' = "error"
    /\ error' = UnpackError
    /\ UNCHANGED <<idx, expect_completion, writer_map, sccs, failed_names,
                   new_temp_vars, debug_log>>
    /\ UNCHANGED <<linearization_items_ordered, BuilderVars, TreeVars, HwVars>>

\* "if not failed"
OnSuccess ==
    /\ InLoopBody
    /\ Inferred.length = 4
    /\ Inferred.result # <<>>
    /\ LET new_dtype == Inferred.result[1]
           changed == Some(new_dtype) # new_temp_vars[item_name]
       IN  /\ changed_during_last_queue_run' =
                    (IF changed THEN TRUE ELSE ChangedAtPop)
           /\ new_temp_vars' =
                    (IF changed
                     THEN [n \in InferNames |->
                            IF n = item_name THEN Some(new_dtype)
                            ELSE new_temp_vars[n]]
                     ELSE new_temp_vars)
           /\ debug_log' = Append(debug_log,
                                  LogEntry(idx, item_name, TRUE, changed))
    /\ queue' = Tail(QueueAtPop)
    /\ failed_names' = ResetFailureMarkers(failed_names)
    /\ UNCHANGED <<idx, pc, error, expect_completion, writer_map, sccs>>
    /\ UNCHANGED <<linearization_items_ordered, BuilderVars, TreeVars, HwVars>>

\* "if failed", the item not having failed before: it is put back into the
\* queue, unless the queue holds the failed names and nothing else
OnFailure ==
    /\ InLoopBody
    /\ Inferred.length = 4
    /\ Inferred.result = <<>>
    /\ item_name \notin failed_names
    /\ failed_names' = failed_names \cup {item_name}
    /\ changed_during_last_queue_run' = ChangedAtPop
    /\ debug_log' = Append(debug_log, LogEntry(idx, item_name, FALSE, FALSE))
    /\ LET popped == Tail(QueueAtPop)
       IN  IF {popped[k] : k \in 1..Len(popped)} = failed_names'
           THEN /\ queue' = popped
                /\ IF expect_completion
                   THEN /\ pc' = "error"
                        /\ error' = AssertionError
                        /\ UNCHANGED idx
                   ELSE /\ EndOfChain
                        /\ UNCHANGED error
           ELSE /\ queue' = Append(popped, item_name)
                /\ UNCHANGED <<idx, pc, error>>
    /\ UNCHANGED <<expect_completion, writer_map, sccs, new_temp_vars>>
    /\ UNCHANGED <<linearization_items_ordered, BuilderVars, TreeVars, HwVars>>

\* "this item has failed before, give up"
OnGiveUp ==
    /\ InLoopBody
    /\ Inferred.length = 4
    /\ Inferred.result = <<>>
    /\ item_name \in failed_names
    /\ queue' = Tail(QueueAtPop)
    /\ changed_during_last_queue_run' = ChangedAtPop
    /\ debug_log' = Append(debug_log, LogEntry(idx, item_name, FALSE, FALSE))
    /\ IF expect_completion
       THEN /\ pc' = "error"
            /\ error' = CouldNotDetermineType(item_name)
            /\ UNCHANGED idx
       ELSE /\ EndOfChain
            /\ UNCHANGED error
    /\ UNCHANGED <<expect_completion, writer_map, sccs, failed_names,
                   new_temp_vars>>
    /\ UNCHANGED <<linearization_items_ordered, BuilderVars, TreeVars, HwVars>>

NextInfer ==
    \/ NextVarChain
    \/ InferReturn
    \/ WhileExit
    \/ SingleVarBreak
    \/ OnUnpackError
    \/ OnSuccess
    \/ OnFailure
    \/ OnGiveUp

SpecInfer == InitInfer /\ [][NextInfer]_vars

\* the interpreter runs the loop on: every step that can be taken is taken
SpecInferFair == SpecInfer /\ WF_vars(NextInfer)

---------------------------------------------------------------------------
\* Reference semantics: the linearization run sequentially, every loop
\* iterating 0, 1, ..., trips[iname]-1

\* the LeaveLoop that closes the innermost of `depth` open loops, from k on
RECURSIVE MatchingLeave(_, _, _)
MatchingLeave(lin, k, depth) ==
    CASE lin[k].kind = "EnterLoop" -> MatchingLeave(lin, k + 1, depth + 1)
      [] lin[k].kind = "LeaveLoop" ->
            IF depth = 1 THEN k ELSE MatchingLeave(lin, k + 1, depth - 1)
      [] OTHER -> MatchingLeave(lin, k + 1, depth)

\* the statement instances run by items lo..hi, in order of execution
RECURSIVE Execute(_, _, _, _, _)
RECURSIVE ExecuteLoop(_, _, _, _, _, _)
Execute(lin, lo, hi, env, trips) ==
    IF lo > hi THEN <<>>
    ELSE LET item == lin[lo]
         IN  CASE item.kind = "EnterLoop" ->
                    LET m == MatchingLeave(lin, lo + 1, 1)
                    IN  ExecuteLoop(lin, lo, m, env, trips, 0)
                        \o Execute(lin, m + 1, hi, env, trips)
               [] /\ item.kind \in {"RunInstruction", "Barrier"}
                  /\ GetInsnIdFromLinearizationItem(item) # NoName ->
                    <<[insn_id |-> GetInsnIdFromLinearizationItem(item),
                       inames |-> env]>>
                    \o Execute(lin, lo + 1, hi, env, trips)
               [] OTHER -> Execute(lin, lo + 1, hi, env, trips)
ExecuteLoop(lin, lo, m, env, trips, v) ==
    IF v >= trips[lin[lo].iname] THEN <<>>
    ELSE Execute(lin, lo + 1, m - 1, env @@ (lin[lo].iname :> v), trips)
         \o ExecuteLoop(lin, lo, m, env, trips, v + 1)

ExecutionTrace(lin, trips) == Execute(lin, 1, Len(lin), <<>>, trips)

\* when the instance runs
ExecPos(trace, insn_id, env) ==
    CHOOSE k \in 1..Len(trace) :
        trace[k] = [insn_id |-> insn_id, inames |-> env]

\* strict lexicographic order of two integer tuples of one length
RECURSIVE LexLess(_, _)
LexLess(A, B) ==
    IF A = <<>> \/ B = <<>> THEN FALSE
    ELSE \/ A[1] < B[1]
         \/ A[1] = B[1] /\ LexLess(Tail(A), Tail(B))

SB == Get(stmt_instance_set_before)
SA == Get(stmt_instance_set_after)

---------------------------------------------------------------------------
\* Claims

\* C1: sequential scope (empty ignore-set), well-nested linearization, each
\* statement id once: the padded lex point of a before-instance x is strictly
\* lexicographically less than that of an after-instance y iff x runs strictly
\* before y in the sequential execution of the linearization.
C1_LexOrderIsExecutionOrder ==
    (pc = "maps" /\ loops_to_ignore = {}) =>
        LET trace == ExecutionTrace(linearization_items_ordered, knl)
        IN  \A x \in maps[1].pairs, y \in maps[2].pairs :
                LexLess(x.lex, y.lex) <=>
                    ExecPos(trace, SB.insn_id, x.inames)
                        < ExecPos(trace, SA.insn_id, y.inames)

\* two distinct statements in different loops, one lex point padded, some
\* instance pair ordered and some not
C1_Witness ==
    /\ pc = "maps" /\ loops_to_ignore = {}
    /\ before_insn_id # after_insn_id
    /\ \E k \in 1..Len(SB.lex_points) : ~IsInt(SB.lex_points[k])
    /\ Len(WalkFrom(InitWalker, linearization_items_ordered, 1,
                    before_insn_id, after_insn_id, {})
              .stmt_instance_set_after[1].lex_points) < Len(SA.lex_points)
    /\ \E x \in maps[1].pairs, y \in maps[2].pairs : LexLess(x.lex, y.lex)
    /\ \E x \in maps[1].pairs, y \in maps[2].pairs : ~LexLess(x.lex, y.lex)

\* the statement instance ordering of the pair the builder was made for
CurrentSio ==
    StatementInstanceOrdering(maps[1], maps[2],
                              GetLexOrderMapForSchedSpace(SB, SA))

\* the statement instance ordering of another query on the same kernel
SioOfQuery(lin, before_id, after_id, ignore, trips) ==
    LET r == PairwiseScheduleBuilder(lin, before_id, after_id, ignore)
        sb == Get(r.stmt_instance_set_before)
        sa == Get(r.stmt_instance_set_after)
        m == BuildMaps(sb, sa, lin, trips)
    IN  StatementInstanceOrdering(m[1], m[2],
                                  GetLexOrderMapForSchedSpace(sb, sa))

ReverseSio ==
    SioOfQuery(linearization_items_ordered, after_insn_id, before_insn_id,
               loops_to_ignore, knl)

\* C2: the sequential ordering is never self-contradictory: no instances s of
\* S and t of T have (s,t) in the sequential SIO of (S,T) and (t,s) in the
\* sequential SIO of (T,S); for S = T, no instance is ordered before itself.
C2_SeqSioNeverContradicts ==
    (pc = "maps" /\ loops_to_ignore = {}) =>
        LET sio == CurrentSio
            rev == ReverseSio
        IN  \A p \in sio :
                ~\E q \in rev :
                    /\ q.before.inames = p.after.inames
                    /\ q.after.inames = p.before.inames

\* two distinct statements, each ordered before the other for some instances
C2_Witness ==
    /\ pc = "maps" /\ loops_to_ignore = {}
    /\ before_insn_id # after_insn_id
    /\ CurrentSio # {}
    /\ ReverseSio # {}

\* C3: padding law: after construction both lex_points have the length of
\* the longer snapshot; the shorter snapshot has integer zeros appended on the
\* right and nothing else changed, the longer one is unchanged.
C3_PaddingLaw ==
    [][(pc = "pad" /\ pc' = "constructed") =>
        LET b == Get(stmt_instance_set_before).lex_points
            a == Get(stmt_instance_set_after).lex_points
            b2 == Get(stmt_instance_set_before').lex_points
            a2 == Get(stmt_instance_set_after').lex_points
            n == Max(Len(b), Len(a))
        IN  /\ Len(b2) = n
            /\ Len(a2) = n
            /\ b2 = b \o [k \in 1..(n - Len(b)) |-> IntDim(0)]
            /\ a2 = a \o [k \in 1..(n - Len(a)) |-> IntDim(0)]
            /\ Get(stmt_instance_set_before').insn_id = before_insn_id
            /\ Get(stmt_instance_set_after').insn_id = after_insn_id]_vars

\* a constructed builder whose before snapshot was padded
C3_Witness ==
    /\ pc = "constructed"
    /\ Len(WalkFrom(InitWalker, linearization_items_ordered, 1,
                    before_insn_id, after_insn_id, loops_to_ignore)
              .stmt_instance_set_before[1].lex_points) < Len(SB.lex_points)
    /\ Len(SB.lex_points) = Len(SA.lex_points)

\* the target ids that occur nowhere in the linearization
MissingIds ==
    {id \in {before_insn_id, after_insn_id} :
        ~\E k \in 1..Len(linearization_items_ordered) :
            /\ linearization_items_ordered[k].kind
                    \in {"RunInstruction", "Barrier"}
            /\ GetInsnIdFromLinearizationItem(linearization_items_ordered[k])
                    = id}

\* C4: MissingStatement: if a target id never occurs, the construction aborts
\* with a fatal error whose message identifies the missing statement, and no
\* builder with a one-sided result is returned.
C4_MissingStatementIdentified ==
    /\ pc \in {"constructed", "maps"} => MissingIds = {}
    /\ pc = "error" =>
        /\ MissingIds # {}
        /\ \E k \in 1..Len(error.args) : error.args[k] \in MissingIds

\* C5: self-pair law: build_maps tags the before side 0 always, the after
\* side 0 when before_id = after_id and 1 otherwise.
C5_SelfPairLaw ==
    pc = "maps" =>
        /\ \A p \in maps[1].pairs : p.statement = 0
        /\ \A p \in maps[2].pairs :
                p.statement = IF before_insn_id = after_insn_id THEN 0 ELSE 1

\* the maps of a statement paired with itself
C5_Witness ==
    /\ pc = "maps"
    /\ before_insn_id = after_insn_id
    /\ maps[1].pairs # {}
    /\ \E p \in maps[2].pairs : p.statement = 0

\* the names prefix+ordinal, written out
LexNamesExpected ==
    <<"_lp_linchk_l0", "_lp_linchk_l1", "_lp_linchk_l2", "_lp_linchk_l3",
      "_lp_linchk_l4", "_lp_linchk_l5", "_lp_linchk_l6", "_lp_linchk_l7",
      "_lp_linchk_l8", "_lp_linchk_l9", "_lp_linchk_l10">>

\* the points of the schedule space the two maps reach
SchedPoints == {p.lex : p \in maps[1].pairs \cup maps[2].pairs}

\* C6: lex-relation law: the lex order map of the schedule space, of arity n,
\* relates A to B exactly when for some k in 0..n-1 they agree on [0,k) and
\* A[k] < B[k]; it is a union of exactly n disjuncts; for n = 1 it is A[0] <
\* B[0]; after-side names are prefix+ordinal, before-side names carry the mark.
C6_LexRelationLaw ==
    pc = "maps" =>
        LET m == GetLexOrderMapForSchedSpace(SB, SA)
            n == Len(SB.lex_points)
            Related(A, B) ==
                InLexOrderMap(m, m.before_names, A, m.after_names, B)
        IN  /\ Len(m.disjuncts) = n
            /\ Len(m.after_names) = n
            /\ Len(m.before_names) = n
            /\ \A k \in 1..n :
                /\ m.after_names[k] = LexNamesExpected[k]
                /\ m.before_names[k] = LexNamesExpected[k] \o "'"
            /\ \A A \in SchedPoints, B \in SchedPoints :
                /\ Related(A, B) <=>
                    \E k \in 1..n :
                        /\ \A c \in 1..(k - 1) : A[c] = B[c]
                        /\ A[k] < B[k]
                /\ n = 1 => (Related(A, B) <=> A[1] < B[1])

\* a schedule space of more than one dimension with two points that differ
\* only in the last one
C6_Witness ==
    /\ pc = "maps"
    /\ Len(SB.lex_points) > 1
    /\ \E A \in SchedPoints, B \in SchedPoints :
        /\ \A c \in 1..(Len(A) - 1) : A[c] = B[c]
        /\ A[Len(A)] < B[Len(B)]

\* the instance pairs (x, y), x over loops bi and y over loops ai
InstancePairs(bi, ai) ==
    InamesDomain(bi, knl) \X InamesDomain(ai, knl)
SioOf(pairs) ==
    {[before |-> [statement |-> 0, inames |-> q[1]],
      after |-> [statement |-> 1, inames |-> q[2]]] : q \in pairs}

\* C7: Scenario A, sibling inner loops: the sequential SIO of (insn_a,insn_b)
\* and of (insn_a,insn_c) relates (i',k') -> (i,j) exactly when i >= i'.
C7_SiblingLoops ==
    (pc = "maps" /\ before_insn_id = "insn_a"
        /\ after_insn_id \in {"insn_b", "insn_c"}) =>
        CurrentSio =
            SioOf({q \in InstancePairs({"i", "k"}, {"i", "j"}) :
                        q[2]["i"] >= q[1]["i"]})

\* the pair (insn_a, insn_b) with several iterations of i, k and j
C7_Witness ==
    /\ pc = "maps" /\ linearization_items_ordered = ScenarioA
    /\ before_insn_id = "insn_a" /\ after_insn_id = "insn_b"
    /\ knl["i"] > 1 /\ knl["k"] > 1 /\ knl["j"] > 1
    /\ CurrentSio # {}
    /\ CurrentSio # SioOf(InstancePairs({"i", "k"}, {"i", "j"}))

\* C8: Scenario A, same block: the sequential SIO of (insn_b,insn_c) relates
\* (i',j') -> (i,j) exactly when i > i', or i = i' and j >= j'.
C8_SameBlock ==
    (pc = "maps" /\ before_insn_id = "insn_b" /\ after_insn_id = "insn_c") =>
        CurrentSio =
            SioOf({q \in InstancePairs({"i", "j"}, {"i", "j"}) :
                        \/ q[2]["i"] > q[1]["i"]
                        \/ q[2]["i"] = q[1]["i"] /\ q[2]["j"] >= q[1]["j"]})

\* the pair (insn_b, insn_c) with several iterations of i and j
C8_Witness ==
    /\ pc = "maps" /\ linearization_items_ordered = ScenarioA
    /\ before_insn_id = "insn_b" /\ after_insn_id = "insn_c"
    /\ knl["i"] > 1 /\ knl["j"] > 1
    /\ \E p \in CurrentSio :
            p.before.inames["i"] = p.after.inames["i"]
            /\ p.before.inames["j"] = p.after.inames["j"]
    /\ CurrentSio # SioOf(InstancePairs({"i", "j"}, {"i", "j"}))

\* the loops around the statements of Scenario A
ScenarioAWithin(id) ==
    CASE id = "insn_a" -> {"i", "k"}
      [] id \in {"insn_b", "insn_c"} -> {"i", "j"}
      [] id = "insn_d" -> {"t"}

\* C9: Scenario A, disjoint nests: with the after statement insn_d in the
\* top-level loop t that follows the nest of the before statement, the
\* sequential SIO relates every before-instance to every after-instance.
C9_DisjointNests ==
    (pc = "maps" /\ after_insn_id = "insn_d") =>
        CurrentSio =
            SioOf(InstancePairs(ScenarioAWithin(before_insn_id), {"t"}))

\* the pair (insn_c, insn_d) with several iterations of every loop
C9_Witness ==
    /\ pc = "maps" /\ linearization_items_ordered = ScenarioA
    /\ before_insn_id = "insn_c" /\ after_insn_id = "insn_d"
    /\ knl["i"] > 1 /\ knl["j"] > 1 /\ knl["t"] > 1
    /\ Cardinality(CurrentSio) = knl["i"] * knl["j"] * knl["t"]

\* the lex points test_pairwise_schedule_creation expects
ScenarioAExpectedLexPoints(before_id, after_id) ==
    CASE after_id = "insn_d" ->
            <<(<<IntDim(0)>>), (<<IntDim(1)>>)>>
      [] before_id = "insn_a" ->
            <<(<<VarDim("i"), IntDim(0)>>), (<<VarDim("i"), IntDim(1)>>)>>
      [] OTHER ->
            <<(<<VarDim("i"), VarDim("j"), IntDim(0)>>),
              (<<VarDim("i"), VarDim("j"), IntDim(1)>>)>>

\* C10: for Scenario A the sequential pairwise schedule maps the instances to
\* these lex points and to no further lex dimensions: (insn_a,insn_b) and
\* (insn_a,insn_c): (i,0) and (i,1); (insn_b,insn_c): (i,j,0) and (i,j,1);
\* every pair with after statement insn_d: (0) and (1).
C10_ScenarioALexPoints ==
    pc \in {"constructed", "maps"} =>
        LET e == ScenarioAExpectedLexPoints(before_insn_id, after_insn_id)
        IN  /\ SB.lex_points = e[1]
            /\ SA.lex_points = e[2]
            /\ pc = "maps" =>
                /\ Len(maps[1].out_names) = Len(e[1])
                /\ Len(maps[2].out_names) = Len(e[2])

\* C11: Scenario C, barrier boundary: in the ordering of (j1, 2) an instance
\* of j1 in the last iteration of j is related to the instances of 2 exactly
\* when its i is less than p1-1; in the ordering of (1, i0) an instance of i0
\* is related exactly when its i is at least 1.
C11_BarrierBoundary ==
    (pc = "maps" /\ linearization_items_ordered = ScenarioC) =>
        LET sio == CurrentSio
            Related(x, y) ==
                [before |-> [statement |-> x.statement, inames |-> x.inames],
                 after |-> [statement |-> y.statement, inames |-> y.inames]]
                    \in sio
        IN  \A x \in maps[1].pairs, y \in maps[2].pairs :
                x.inames["g0"] = y.inames["g0"] =>
                    /\ (before_insn_id = "j1"
                            /\ x.inames["j"] = knl["j"] - 1) =>
                        (Related(x, y) <=> x.inames["i"] < knl["i"] - 1)
                    /\ before_insn_id = "1" =>
                        (Related(x, y) <=> y.inames["i"] >= 1)

\* the statement instances of Scenario B
ScenarioBInstances == InamesDomain({"i", "ii", "j", "jj"}, knl)

\* C12: Scenario B, hardware tags: stmt_a is mapped to the lex point (ii, 0)
\* and stmt_b to (ii, 1), and the ordering relates (i',ii',j',jj') to
\* (i,ii,j,jj) exactly when i = i', j = j', jj = jj' and ii >= ii'.
C12_ScenarioB ==
    (pc \in {"constructed", "maps"}
        /\ linearization_items_ordered = ScenarioB) =>
        /\ SB.lex_points = <<VarDim("ii"), IntDim(0)>>
        /\ SA.lex_points = <<VarDim("ii"), IntDim(1)>>
        /\ pc = "maps" =>
            CurrentSio =
                SioOf({q \in ScenarioBInstances \X ScenarioBInstances :
                        /\ q[2]["i"] = q[1]["i"]
                        /\ q[2]["j"] = q[1]["j"]
                        /\ q[2]["jj"] = q[1]["jj"]
                        /\ q[2]["ii"] >= q[1]["ii"]})

\* the linearization without the EnterLoop and LeaveLoop items of `ignore`
RemoveLoops(lin, ignore) ==
    SelectSeq(lin, LAMBDA it :
        ~(it.kind \in {"EnterLoop", "LeaveLoop"} /\ it.iname \in ignore))

\* the inames of a recorded lex point
InamesOfLexPoints(o) ==
    IF o = None THEN {}
    ELSE {Get(o).lex_points[k].iname : k \in 1..Len(Get(o).lex_points)}
            \ {NoName}

\* C13: ignored loops are transparent: the walk with ignore-set I gives what
\* the walk with the empty ignore-set gives on the linearization without the
\* EnterLoop and LeaveLoop items of the inames in I, and no iname of I is in
\* a lex point.
C13_IgnoredLoopsTransparent ==
    pc \in {"pad", "constructed", "error"} =>
        LET lin0 == RemoveLoops(linearization_items_ordered, loops_to_ignore)
        IN  /\ pc = "pad" =>
                W = WalkFrom(InitWalker, lin0, 1,
                             before_insn_id, after_insn_id, {})
            /\ pc # "pad" =>
                [error |-> error,
                 stmt_instance_set_before |-> stmt_instance_set_before,
                 stmt_instance_set_after |-> stmt_instance_set_after]
                    = PairwiseScheduleBuilder(lin0, before_insn_id,
                                              after_insn_id, {})
            /\ InamesOfLexPoints(stmt_instance_set_before)
                    \cap loops_to_ignore = {}
            /\ InamesOfLexPoints(stmt_instance_set_after)
                    \cap loops_to_ignore = {}

\* a constructed builder for which ignoring the loop changed a lex point
C13_Witness ==
    /\ pc = "constructed"
    /\ loops_to_ignore # {}
    /\ before_insn_id # after_insn_id
    /\ LET r == PairwiseScheduleBuilder(linearization_items_ordered,
                                        before_insn_id, after_insn_id, {})
       IN  /\ r.stmt_instance_set_before # stmt_instance_set_before
           /\ r.stmt_instance_set_after # stmt_instance_set_after

\* the linearization without the barriers that have no originating id
RemoveBarriersWithoutId(lin) ==
    SelectSeq(lin, LAMBDA it :
        ~(it.kind = "Barrier" /\ it.originating_insn_id = NoName))

\* C14: a Barrier without originating id is skipped: the step over it leaves
\* the lex tuple, the block counters, the flags and both recorded statements
\* unchanged and goes on with the next item; the walk ends as the walk over
\* the linearization without such barriers ends.
C14_BarrierWithoutIdSkipped ==
    [][/\ (InLoop /\ CurItem.kind = "Barrier"
            /\ CurItem.originating_insn_id = NoName) =>
            /\ UNCHANGED <<next_insn_lex_tuple,
                           stmt_added_since_prev_block_at_tier,
                           stmt_instance_set_before, stmt_instance_set_after>>
            /\ idx' = idx + 1
            /\ pc' = "loop"
       /\ (pc = "loop" /\ pc' = "pad") =>
            W' = WalkFrom(InitWalker,
                          RemoveBarriersWithoutId(linearization_items_ordered),
                          1, before_insn_id, after_insn_id, loops_to_ignore)
      ]_vars

\* a constructed builder whose walk went over a barrier without id after it
\* had recorded one statement and before it recorded the other
C14_Witness ==
    /\ pc = "constructed"
    /\ before_insn_id # after_insn_id
    /\ \E k \in 1..(idx - 1) :
        /\ linearization_items_ordered[k] = Barrier(NoName)
        /\ \E m \in 1..(k - 1) :
                GetInsnIdFromLinearizationItem(linearization_items_ordered[m])
                    \in {before_insn_id, after_insn_id}

\* C15: early exit: the walk stops at the first item after which both target
\* statements have occurred and no later item is ever the current item; the
\* walk and the padded result are those of the linearization cut after that
\* item, whatever follows it.
C15_EarlyExit ==
    LET K == FirstBothCaptured(linearization_items_ordered,
                               before_insn_id, after_insn_id)
        cut == SubSeq(linearization_items_ordered, 1, K)
    IN  /\ K > 0 /\ pc # "error"
        /\ pc = "loop" => idx <= K
        /\ pc # "loop" => idx = K + 1
        /\ pc = "pad" =>
            W = WalkFrom(InitWalker, cut, 1, before_insn_id, after_insn_id,
                         loops_to_ignore)
        /\ pc = "constructed" =>
            [error |-> error,
             stmt_instance_set_before |-> stmt_instance_set_before,
             stmt_instance_set_after |-> stmt_instance_set_after]
                = PairwiseScheduleBuilder(cut, before_insn_id, after_insn_id,
                                          loops_to_ignore)

\* a constructed builder of two distinct statements whose linearization goes
\* on, after the item the walk stopped at, with an ill-nested LeaveLoop and
\* with both targets again
C15_Witness ==
    /\ pc = "constructed"
    /\ before_insn_id # after_insn_id
    /\ \E k \in idx..Len(linearization_items_ordered) :
            linearization_items_ordered[k] = RunInstruction(before_insn_id)
    /\ \E k \in idx..Len(linearization_items_ordered) :
            linearization_items_ordered[k] = RunInstruction(after_insn_id)
    /\ \E k \in idx..Len(linearization_items_ordered) :
        /\ linearization_items_ordered[k].kind = "LeaveLoop"
        /\ linearization_items_ordered[k].iname
                \notin {linearization_items_ordered[m].iname : m \in 1..(k - 1)}

\* C16: determinism and independence of queries: whatever builders were made
\* before, a builder's lex points are those of the linearization, the pair
\* and the ignore-set alone, and its maps (statement tags included) those of
\* the lex points and the kernel alone; no step changes the linearization,
\* and only a new query changes the pair or the ignore-set.
C16_QueriesIndependent ==
    [][/\ linearization_items_ordered' = linearization_items_ordered
       /\ (pc = "loop" \/ pc' # "loop") =>
            UNCHANGED <<before_insn_id, after_insn_id, loops_to_ignore>>
       /\ pc' \in {"constructed", "maps"} =>
            LET r == PairwiseScheduleBuilder(linearization_items_ordered',
                                            before_insn_id', after_insn_id',
                                            loops_to_ignore')
            IN  /\ r.error = NoError
                /\ stmt_instance_set_before' = r.stmt_instance_set_before
                /\ stmt_instance_set_after' = r.stmt_instance_set_after
                /\ pc' = "maps" =>
                    maps' = BuildMaps(Get(r.stmt_instance_set_before),
                                      Get(r.stmt_instance_set_after),
                                      linearization_items_ordered', knl')
      ]_vars

\* the maps of a builder made after a builder for another pair and another
\* ignore-set, whose walk ended deeper in the loop nest
C16_Witness ==
    /\ pc = "maps"
    /\ previous_query # None
    /\ Get(previous_query).before_insn_id # before_insn_id
    /\ Get(previous_query).after_insn_id # after_insn_id
    /\ Get(previous_query).loops_to_ignore # loops_to_ignore
    /\ Get(previous_query).after_insn_id = "insn_c"
    /\ after_insn_id = "insn_d"

\* C20: EnterLoop of an iname that is not ignored: the counter of the top
\* frame is incremented by one and its flag cleared if and only if that flag
\* is set, else both are unchanged; then one frame is pushed: the iname and a
\* counter 0 are added to the lex tuple and a cleared flag to the flags; the
\* counters and flags of all outer frames, and the recorded statements, are
\* unchanged.
C20_EnterLoopStep ==
    [][(InLoop /\ CurItem.kind = "EnterLoop"
            /\ CurItem.iname \notin loops_to_ignore) =>
        LET t == next_insn_lex_tuple
            f == stmt_added_since_prev_block_at_tier
            t2 == next_insn_lex_tuple'
            f2 == stmt_added_since_prev_block_at_tier'
            n == Len(t)
            d == Len(f)
        IN  /\ Len(t2) = n + 2
            /\ Len(f2) = d + 1
            /\ t2[n + 1] = VarDim(CurItem.iname)
            /\ t2[n + 2] = IntDim(0)
            /\ f2[d + 1] = FALSE
            /\ f[d] => (t2[n] = IntDim(t[n].int + 1) /\ f2[d] = FALSE)
            /\ ~f[d] => (t2[n] = t[n] /\ f2[d] = FALSE)
            /\ \A k \in 1..(n - 1) : t2[k] = t[k]
            /\ \A k \in 1..(d - 1) : f2[k] = f[k]
            /\ UNCHANGED <<stmt_instance_set_before, stmt_instance_set_after>>
            /\ pc' = "loop"
      ]_vars

\* the walk has just entered an inner loop whose outer loop had seen a
\* statement: the outer loop's counter was bumped, its flag cleared, and the
\* flag of the top level is still set
C20_Witness ==
    /\ pc = "loop" /\ idx > 1
    /\ linearization_items_ordered[idx - 1].kind = "EnterLoop"
    /\ linearization_items_ordered[idx - 1].iname \notin loops_to_ignore
    /\ Len(stmt_added_since_prev_block_at_tier) = 3
    /\ stmt_added_since_prev_block_at_tier = <<TRUE, FALSE, FALSE>>
    /\ next_insn_lex_tuple[3] = IntDim(2)
    /\ next_insn_lex_tuple[5] = IntDim(0)

\* the nodes of a tree
RECURSIVE NodesOf(_)
NodesOf(node) ==
    {node} \cup UNION {NodesOf(node.children[k]) :
                            k \in 1..Len(node.children)}

\* a list of sibling nodes with every run of adjacent blocks made one block
RECURSIVE MergeSiblings(_)
MergeSiblings(siblings) ==
    IF Len(siblings) <= 1 THEN siblings
    ELSE LET rest == MergeSiblings(Tail(siblings))
         IN  IF siblings[1].type = "InstructionBlock"
                    /\ rest[1].type = "InstructionBlock"
             THEN <<InstructionBlock(siblings[1].children
                                        \o rest[1].children)>> \o Tail(rest)
             ELSE <<siblings[1]>> \o rest

\* a tree with the adjacent sibling blocks merged, at every level
RECURSIVE MergeBlocks(_)
MergeBlocks(node) ==
    [node EXCEPT !.children =
         MergeSiblings([k \in 1..Len(node.children) |->
                            MergeBlocks(node.children[k])])]

\* C18: homogenize_instruction_blocks splits every instruction block into
\* maximal runs of consecutive similar instructions: all instructions of a
\* resulting block have the same within_inames and the same predicates; the
\* resulting blocks, put together in order, are the original blocks in the
\* original tree; the last instruction of a block is not similar to the
\* first instruction of the block that follows it.
C18_HomogenizeSplitsIntoMaximalRuns ==
    pc = "homogenized" =>
        LET new == Get(new_schedule)
            Same(a, b) ==
                /\ id_to_insn[a.name].within_inames
                        = id_to_insn[b.name].within_inames
                /\ id_to_insn[a.name].predicates
                        = id_to_insn[b.name].predicates
        IN  /\ MergeBlocks(new) = KernelSchedule
            /\ \A n \in NodesOf(new) :
                /\ n.type = "InstructionBlock" =>
                    /\ n.children # <<>>
                    /\ \A j, k \in 1..Len(n.children) :
                            Same(n.children[j], n.children[k])
                /\ \A k \in 1..(Len(n.children) - 1) :
                        (n.children[k].type = "InstructionBlock"
                            /\ n.children[k + 1].type = "InstructionBlock") =>
                        ~Same(Last(n.children[k].children),
                              n.children[k + 1].children[1])

\* a block of three instructions was split in two, the first two being
\* similar and the third differing from them in its predicates only
C18_Witness ==
    /\ pc = "homogenized"
    /\ \E n \in NodesOf(Get(new_schedule)) :
        \E k \in 1..(Len(n.children) - 1) :
            /\ n.children[k].type = "InstructionBlock"
            /\ n.children[k + 1].type = "InstructionBlock"
            /\ Len(n.children[k].children) = 2
            /\ id_to_insn[n.children[k].children[2].name].within_inames
                    = id_to_insn[n.children[k + 1].children[1].name]
                        .within_inames

\* C19: in the tree make_schedule_tree makes, every InstructionBlock has at
\* least one child and only RunInstruction children, every RunInstruction
\* is the child of an InstructionBlock, and no two InstructionBlocks are
\* adjacent siblings.
C19_InstructionBlocksWellFormed ==
    pc = "tree_made" =>
        /\ build_stack = <<>>
        /\ KernelSchedule.type = "Schedule"
        /\ \A n \in NodesOf(KernelSchedule) :
            /\ n.type = "InstructionBlock" =>
                /\ n.children # <<>>
                /\ \A k \in 1..Len(n.children) :
                        n.children[k].type = "RunInstruction"
            /\ n.type # "InstructionBlock" =>
                \A k \in 1..Len(n.children) :
                    n.children[k].type # "RunInstruction"
            /\ \A k \in 1..(Len(n.children) - 1) :
                    ~(n.children[k].type = "InstructionBlock"
                        /\ n.children[k + 1].type = "InstructionBlock")

\* a tree with a loop whose children are a block, a barrier and a block of
\* two instructions
C19_Witness ==
    /\ pc = "tree_made"
    /\ \E n \in NodesOf(KernelSchedule) :
        /\ n.type = "Loop"
        /\ Len(n.children) = 3
        /\ n.children[1].type = "InstructionBlock"
        /\ n.children[2].type = "Barrier"
        /\ n.children[3].type = "InstructionBlock"
        /\ Len(n.children[3].children) = 2

\* the dimensions of the domain the loop has gone past
HwDimsDone == { domain[k] : k \in 1..(idx - 1) }

\* the inames that carry two axis tags at once
TwoAxisTags == { n \in DOMAIN iname_tags : Cardinality(iname_tags[n]) >= 2 }

---------------------------------------------------------------------------
\* Claims about the steps of the walk

\* the EnterLoop that the LeaveLoop at position k closes
MatchingEnter(lin, k) ==
    CHOOSE m \in 1..(k - 1) :
        /\ lin[m].kind = "EnterLoop"
        /\ MatchingLeave(lin, m + 1, 1) = k

\* the ids of the items m..k
IdsBetween(lin, m, k) ==
    { GetInsnIdFromLinearizationItem(lin[n]) : n \in m..k }

\* C21: LeaveLoop of an iname that is not ignored pops exactly the innermost
\* frame (its counter, its iname and its flag); then the counter of the new
\* top frame is incremented by one and its flag cleared if and only if its
\* flag was set; all other frames and the recorded statements are unchanged.
\* A loop that held neither target statement, entered with the flag of the
\* enclosing frame clear, leaves the lex tuple and the flags as they were
\* before the loop was entered.
C21_LeaveLoopStep ==
    [][(InLoop /\ CurItem.kind = "LeaveLoop"
            /\ CurItem.iname \notin loops_to_ignore) =>
        LET lin == linearization_items_ordered
            t == next_insn_lex_tuple
            f == stmt_added_since_prev_block_at_tier
            t2 == next_insn_lex_tuple'
            f2 == stmt_added_since_prev_block_at_tier'
            n == Len(t)
            d == Len(f)
            m == MatchingEnter(lin, idx)
            at_entry == WalkFrom(InitWalker, SubSeq(lin, 1, m - 1), 1,
                                 before_insn_id, after_insn_id,
                                 loops_to_ignore)
        IN  /\ n >= 3 /\ d >= 2
            /\ t[n - 1] = VarDim(CurItem.iname)
            /\ IsInt(t[n])
            /\ Len(t2) = n - 2
            /\ Len(f2) = d - 1
            /\ f[d - 1] => (t2[n - 2] = IntDim(t[n - 2].int + 1)
                                /\ f2[d - 1] = FALSE)
            /\ ~f[d - 1] => (t2[n - 2] = t[n - 2] /\ f2[d - 1] = FALSE)
            /\ \A k \in 1..(n - 3) : t2[k] = t[k]
            /\ \A k \in 1..(d - 2) : f2[k] = f[k]
            /\ UNCHANGED <<stmt_instance_set_before, stmt_instance_set_after>>
            /\ (/\ IdsBetween(lin, m, idx)
                        \cap {before_insn_id, after_insn_id} = {}
                /\ ~Last(at_entry.stmt_added_since_prev_block_at_tier)) =>
                    /\ t2 = at_entry.next_insn_lex_tuple
                    /\ f2 = at_entry.stmt_added_since_prev_block_at_tier
      ]_vars

\* the walk has just left an inner loop that held a target statement: the
\* counter of the outer loop was bumped and its flag cleared, and the flag of
\* the top level is still set
C21_Witness ==
    /\ pc = "loop" /\ idx > 1
    /\ linearization_items_ordered[idx - 1].kind = "LeaveLoop"
    /\ linearization_items_ordered[idx - 1].iname \notin loops_to_ignore
    /\ stmt_added_since_prev_block_at_tier = <<TRUE, FALSE>>
    /\ next_insn_lex_tuple[1] = IntDim(0)
    /\ next_insn_lex_tuple[3] = IntDim(1)

\* C22: a RunInstruction or Barrier whose id is before_insn_id and/or
\* after_insn_id records the current lex tuple, as it is before the step,
\* for each side it matches (the same tuple for both when the two ids are
\* equal), then increments the innermost counter by one, leaves every other
\* entry of the tuple alone and sets the flag of every open frame; an item
\* whose id matches neither (or that has no id) changes no counter, no flag
\* and no recorded statement.
C22_StatementStep ==
    [][(InLoop /\ CurItem.kind \in {"RunInstruction", "Barrier"}) =>
        LET lp_insn_id == GetInsnIdFromLinearizationItem(CurItem)
            t == next_insn_lex_tuple
            f == stmt_added_since_prev_block_at_tier
            t2 == next_insn_lex_tuple'
            f2 == stmt_added_since_prev_block_at_tier'
            n == Len(t)
        IN  /\ lp_insn_id = before_insn_id =>
                stmt_instance_set_before'
                    = Some(StatementInstanceSet(lp_insn_id, t))
            /\ lp_insn_id # before_insn_id =>
                UNCHANGED stmt_instance_set_before
            /\ lp_insn_id = after_insn_id =>
                stmt_instance_set_after'
                    = Some(StatementInstanceSet(lp_insn_id, t))
            /\ lp_insn_id # after_insn_id =>
                UNCHANGED stmt_instance_set_after
            /\ Len(t2) = n /\ Len(f2) = Len(f)
            /\ lp_insn_id \in {before_insn_id, after_insn_id} =>
                /\ IsInt(t[n])
                /\ t2[n] = IntDim(t[n].int + 1)
                /\ \A k \in 1..(n - 1) : t2[k] = t[k]
                /\ \A k \in 1..Len(f) : f2[k] = TRUE
            /\ lp_insn_id \notin {before_insn_id, after_insn_id} =>
                /\ t2 = t
                /\ f2 = f
      ]_vars

\* the walk has just recorded, two loops deep, a statement that is both the
\* before and the after statement: the two sides hold the same tuple, the
\* innermost counter is one more than the recorded one, and all three flags
\* are set
C22_Witness ==
    /\ pc = "pad"
    /\ before_insn_id = after_insn_id
    /\ stmt_instance_set_before # None
    /\ stmt_instance_set_before = stmt_instance_set_after
    /\ Len(next_insn_lex_tuple) = 5
    /\ next_insn_lex_tuple[5]
            = IntDim(Get(stmt_instance_set_before).lex_points[5].int + 1)
    /\ stmt_added_since_prev_block_at_tier = <<TRUE, TRUE, TRUE>>

\* the positions at which two tuples differ, up to the end of the shorter
DifferingPositions(A, B) ==
    { k \in 1..MinLexDims([lex_points |-> A], [lex_points |-> B]) :
        A[k] # B[k] }

\* the least element of a non-empty set of numbers
Least(S) == CHOOSE k \in S : \A m \in S : k <= m

\* C23: two distinct target statements have both been recorded (the tuples
\* are not padded yet): the two lex tuples differ at some position within the
\* shorter one, at the first such position both hold an integer counter, and
\* the counter of the statement that comes first in the linearization is the
\* strictly smaller one; so the order of the padded tuples is decided before
\* any padded zero, and never by an iname.
C23_FirstDifferenceIsCounter ==
    (/\ pc = "pad"
     /\ before_insn_id # after_insn_id
     /\ stmt_instance_set_before # None
     /\ stmt_instance_set_after # None) =>
        LET b == SB.lex_points
            a == SA.lex_points
            lin == linearization_items_ordered
            diffs == DifferingPositions(b, a)
        IN  /\ diffs # {}
            /\ LET p == Least(diffs)
               IN  /\ IsInt(b[p]) /\ IsInt(a[p])
                   /\ IF PositionOf(lin, before_insn_id)
                            < PositionOf(lin, after_insn_id)
                      THEN b[p].int < a[p].int
                      ELSE a[p].int < b[p].int

\* the after statement runs two loops deep, the before statement later and
\* one loop deep: the tuples have lengths 3 and 5 and first differ at the
\* counter of the shared loop
C23_Witness ==
    /\ pc = "pad"
    /\ before_insn_id # after_insn_id
    /\ stmt_instance_set_before # None
    /\ stmt_instance_set_after # None
    /\ Len(SB.lex_points) = 3
    /\ Len(SA.lex_points) = 5
    /\ DifferingPositions(SB.lex_points, SA.lex_points) = {3}
    /\ SA.lex_points[3].int < SB.lex_points[3].int

\* the loops open after the items before the current one, the ignored ones
\* left out, outermost first
OpenLoopsNotIgnored ==
    LET NotIgnored(iname) == iname \notin loops_to_ignore
    IN  SelectSeq(OpenLoopsAt(linearization_items_ordered, idx - 1),
                  NotIgnored)

\* the shape of the lex tuple and the flags for the frames of the open loops
WalkerShape ==
    LET open == OpenLoopsNotIgnored
        d == Len(open)
        t == next_insn_lex_tuple
    IN  /\ Len(t) = 2 * d + 1
        /\ Len(stmt_added_since_prev_block_at_tier) = d + 1
        /\ \A k \in 1..(d + 1) :
                IsInt(t[2 * k - 1]) /\ t[2 * k - 1].int >= 0
        /\ \A k \in 1..d : t[2 * k] = VarDim(open[k])

\* C24: walker shape: after any prefix of a well-nested linearization, with
\* d the number of open loops that are not ignored, the lex tuple has length
\* 2*d+1 and the flags have length d+1; the tuple holds, from its first
\* entry on, a non-negative counter, then for each open loop in nesting order
\* its iname and a non-negative counter; and no step decreases the counter
\* of a frame that is open before and after it.
C24_WalkerShape ==
    [][/\ WalkerShape
       /\ WalkerShape'
       /\ \A k \in 1..Len(stmt_added_since_prev_block_at_tier) :
            k <= Len(stmt_added_since_prev_block_at_tier') =>
                next_insn_lex_tuple'[2 * k - 1].int
                    >= next_insn_lex_tuple[2 * k - 1].int
      ]_vars

\* two loops are open and the inner one is ignored: the tuple has the frame
\* of the outer loop only, whose counter a statement has raised
C24_Witness ==
    /\ pc = "loop"
    /\ loops_to_ignore = {"j"}
    /\ OpenLoopsAt(linearization_items_ordered, idx - 1) = <<"i", "j">>
    /\ Len(next_insn_lex_tuple) = 3
    /\ next_insn_lex_tuple[2] = VarDim("i")
    /\ next_insn_lex_tuple[3] = IntDim(1)
    /\ stmt_added_since_prev_block_at_tier = <<TRUE, TRUE>>

---------------------------------------------------------------------------
\* Claims about make_schedule_tree on flat schedules

\* an open function or loop of a flat schedule
Open(type, name) == [type |-> type, name |-> name]

\* the functions and loops open after the first k items of a flat schedule,
\* outermost first, or None when one of these items is ill-nested: a
\* CallKernel with anything open, a ReturnFromKernel or LeaveLoop that does
\* not close the innermost open function or loop
RECURSIVE NestingAfter(_, _)
NestingAfter(sched, k) ==
    IF k = 0 THEN Some(<<>>)
    ELSE LET before == NestingAfter(sched, k - 1)
             item == sched[k]
         IN  IF before = None THEN None
             ELSE LET open == Get(before)
                      Close(type, name) ==
                        IF open # <<>> /\ Last(open) = Open(type, name)
                        THEN Some(SubSeq(open, 1, Len(open) - 1))
                        ELSE None
                  IN  CASE item.kind = "CallKernel" ->
                            IF open = <<>>
                            THEN Some(<<Open("Function", item.kernel_name)>>)
                            ELSE None
                        [] item.kind = "ReturnFromKernel" ->
                            Close("Function", item.kernel_name)
                        [] item.kind = "EnterLoop" ->
                            Some(Append(open, Open("Loop", item.iname)))
                        [] item.kind = "LeaveLoop" ->
                            Close("Loop", item.iname)
                        [] OTHER -> before

\* CallKernel only at top level, loops and functions properly closed
WellNested(sched) == NestingAfter(sched, Len(sched)) = Some(<<>>)

\* the pre-order flattening of a tree: CallKernel/ReturnFromKernel around the
\* children of a Function, EnterLoop/LeaveLoop around those of a Loop, the
\* RunInstruction and Barrier leaves in child order
RECURSIVE Flatten(_)
RECURSIVE FlattenAll(_)
Flatten(node) ==
    CASE node.type = "Function" ->
            <<CallKernelOf(node.name, node.fields[1], node.fields[2])>>
                \o FlattenAll(node.children)
                \o <<ReturnFromKernelOf(node.name)>>
      [] node.type = "Loop" ->
            <<EnterLoop(node.name)>> \o FlattenAll(node.children)
                \o <<LeaveLoop(node.name)>>
      [] node.type = "RunInstruction" -> <<RunInstruction(node.name)>>
      [] node.type = "Barrier" ->
            <<BarrierOf(node.fields[1], node.fields[2], node.fields[3],
                        node.name)>>
      [] OTHER -> FlattenAll(node.children)
FlattenAll(children) ==
    IF children = <<>> THEN <<>>
    ELSE Flatten(Head(children)) \o FlattenAll(Tail(children))

\* make_schedule_tree has ended, by a return or by an exception, after it
\* read the whole schedule
ScheduleRead ==
    pc \in {"tree_made", "error"} /\ idx > Len(linearization_items_ordered)

\* C25: make_schedule_tree preserves the schedule: for a well-nested flat
\* schedule it returns a tree, and the pre-order flattening of that tree is
\* the schedule, item for item, with every field of every item (the comment,
\* the kinds and the originating id of a barrier included).
C25_TreePreservesSchedule ==
    (ScheduleRead /\ WellNested(linearization_items_ordered)) =>
        /\ pc = "tree_made"
        /\ Flatten(KernelSchedule) = linearization_items_ordered

\* the tree of a function that runs a, a global barrier and b
C25_Witness ==
    /\ pc = "tree_made"
    /\ linearization_items_ordered =
            <<CallKernelOf("knl", <<"arg">>, <<"i">>),
              RunInstruction("a"),
              BarrierOf("for b", "global", "local", "b"),
              RunInstruction("b"),
              ReturnFromKernelOf("knl")>>
    /\ Len(KernelSchedule.children) = 1
    /\ Len(KernelSchedule.children[1].children) = 3

\* C26: make_schedule_tree rejects every ill-nested flat schedule with an
\* assertion failure and returns no tree: the items read and accepted are
\* well-nested so far and the build stack holds the root and the open
\* functions and loops; the loop fails exactly at the first ill-nested item
\* (a LeaveLoop or ReturnFromKernel that does not close the innermost open
\* loop or function, a CallKernel with anything open), exit() fails exactly
\* when a loop or function is still open at the end, and every failure is an
\* AssertionError; a tree is returned only for a well-nested schedule, and
\* the build stack is then empty.
C26_IllNestedRejected ==
    LET sched == linearization_items_ordered
        read == NestingAfter(sched, idx - 1)
        OpenOf(n) == Open(nodes[n].type, nodes[n].name)
        stack_open == [k \in 1..Len(build_stack) |-> OpenOf(build_stack[k])]
        OpenOnly(s) == SelectSeq(s, LAMBDA o : o.type \in {"Function", "Loop"})
    IN  /\ pc = "tree" =>
            /\ read # None
            /\ OpenOnly(stack_open) = Get(read)
            /\ stack_open[1].type = "Schedule"
        /\ pc = "error" =>
            /\ error = AssertionError
            /\ read # None
            /\ IF idx <= Len(sched)
               THEN NestingAfter(sched, idx) = None
               ELSE Get(read) # <<>>
        /\ pc = "tree_made" =>
            /\ WellNested(sched)
            /\ idx > Len(sched)
            /\ build_stack = <<>>

\* the loop failed at a LeaveLoop of the outer loop while the inner loop was
\* open
C26_Witness ==
    /\ pc = "error"
    /\ error = AssertionError
    /\ linearization_items_ordered =
            <<EnterLoop("i"), RunInstruction("a"), EnterLoop("j"),
              LeaveLoop("i")>>

---------------------------------------------------------------------------
\* Claims about insert_predicates_into_schedule

\* the nodes of a type in a tree, in the order of the traversal
RECURSIVE NodesOfType(_, _)
NodesOfType(node, type) ==
    (IF node.type = type THEN <<node>> ELSE <<>>) \o
    Combine([c \in 1..Len(node.children) |->
                NodesOfType(node.children[c], type)])

\* the instructions of a block share one within_inames set and one predicate
\* set, and there is one at least
BlockIsHomogeneous(insns, block) ==
    /\ block.children # <<>>
    /\ \A a, b \in 1..Len(block.children) :
            /\ insns[block.children[a].name].within_inames =
               insns[block.children[b].name].within_inames
            /\ insns[block.children[a].name].predicates =
               insns[block.children[b].name].predicates

\* the blocks of the tree are blocks the homogenizer made
BlocksAreHomogenizedBlocks(tree) ==
    LET blocks == NodesOfType(tree, "InstructionBlock")
        made == NodesOfType(Get(new_schedule), "InstructionBlock")
    IN  \A b \in 1..Len(blocks) : \E m \in 1..Len(made) : blocks[b] = made[m]

\* C27: in insert_predicates_into_schedule on a tree made by
\* make_schedule_tree, no pass raises: the two assertions of
\* PredicateInsertionMapper.map_instruction_block hold for every block and
\* Unroller.map_loop is never called.  The blocks the homogenizer returns are
\* homogeneous; PolyhedronLoopifier keeps the blocks and their order and leaves
\* no plain Loop; Unroller and PredicateInsertionMapper only keep, repeat or
\* wrap blocks the homogenizer made, each whole.
C27_PredicateInsertionAssertionsHold ==
    /\ pc # "error"
    /\ pc \in {"homogenized", "loopified", "unrolled", "predicates_inserted"}
        => LET made == NodesOfType(Get(new_schedule), "InstructionBlock")
           IN  \A b \in 1..Len(made) :
                    BlockIsHomogeneous(id_to_insn, made[b])
    /\ pc = "loopified"
        => NodesOfType(Get(schedule), "InstructionBlock") =
           NodesOfType(Get(new_schedule), "InstructionBlock")
    /\ pc \in {"loopified", "unrolled", "predicates_inserted"}
        => /\ NodesOfType(Get(schedule), "Loop") = <<>>
           /\ BlocksAreHomogenizedBlocks(Get(schedule))

\* the passes have run on a tree with a loop that was unrolled, where the
\* homogenizer had split a block of make_schedule_tree and had left a block of
\* two instructions, one block with predicates
C27_Witness ==
    /\ pc = "predicates_inserted"
    /\ LET made == NodesOfType(Get(new_schedule), "InstructionBlock")
       IN  /\ Len(made) > Len(NodesOfType(KernelSchedule, "InstructionBlock"))
           /\ \E b \in 1..Len(made) : Len(made[b].children) >= 2
    /\ Len(NodesOfType(Get(schedule), "For")) >
       Len(NodesOfType(Get(new_schedule), "Loop"))
    /\ NodesOfType(Get(schedule), "If") # <<>>

---------------------------------------------------------------------------
\* Claims about infer_unknown_types_for_a_single_kernel

\* the log shows a failure of item in this chain with no success of any name
\* of the chain after it
FailedSinceLastSuccess(log, chain, item) ==
    \E i \in 1..Len(log) :
        /\ log[i].chain = chain
        /\ log[i].name = item
        /\ ~log[i].success
        /\ \A j \in (i + 1)..Len(log) : log[j].chain = chain => ~log[j].success

\* the names the log shows to have been given up on: a failure that follows
\* a failure of the same name with no success in between
GivenUp(log) ==
    {log[i].name : i \in {k \in 1..Len(log) :
        /\ ~log[k].success
        /\ FailedSinceLastSuccess(SubSeq(log, 1, k - 1),
                                  log[k].chain, log[k].name)}}

\* C28: retry rule.  When the inference of a variable fails, and it has not
\* failed before since the last success in its SCC, the variable is put back
\* at the end of the queue and the loop goes on; when it has, processing gives
\* up: with expect_completion a LoopyError "could not determine type of" the
\* variable is raised, without it the loop of the SCC ends without error and
\* the dtype of the variable is unknown, also when the function returns.
C28_RetryRule ==
    [][ /\ (debug_log' # debug_log /\ ~Last(debug_log').success) =>
            LET item == Last(debug_log').name
            IN  IF FailedSinceLastSuccess(debug_log, idx, item)
                THEN /\ new_temp_vars'[item] = None
                     /\ IF expect_completion
                        THEN /\ pc' = "error"
                             /\ error' = CouldNotDetermineType(item)
                        ELSE /\ pc' = "for"
                             /\ idx' = idx + 1
                             /\ error' = NoError
                ELSE /\ pc' = "while"
                     /\ idx' = idx
                     /\ error' = NoError
                     /\ queue' # <<>>
                     /\ Last(queue') = item
                     /\ Cardinality({k \in 1..Len(queue') :
                                        queue'[k] = item}) = 1
        /\ pc' = "inferred" =>
            /\ error' = NoError
            /\ \A n \in GivenUp(debug_log') : new_temp_vars'[n] = None
      ]_vars

\* without expect_completion the function has returned after giving up on one
\* name; another name failed, was put back and succeeded later
C28_Witness ==
    /\ pc = "inferred"
    /\ ~expect_completion
    /\ \E n \in GivenUp(debug_log) : new_temp_vars[n] = None
    /\ \E i, j \in 1..Len(debug_log) :
            /\ i < j
            /\ debug_log[i].name = debug_log[j].name
            /\ ~debug_log[i].success
            /\ debug_log[j].success

\* the names of unknown type that no instruction writes
NamesWithoutWriter == {n \in InferNames : writer_map[n] = {}}

\* C29: a variable of unknown type without writer is an ordinary inference
\* failure: without expect_completion the call returns normally, the dtype of
\* the variable still None, and the only error there can be is the LoopyError
\* "could not determine type of" under expect_completion.
C29_NoWriterIsOrdinaryFailure ==
    /\ pc = "error" =>
        /\ expect_completion
        /\ error.type = "LoopyError"
    /\ pc = "inferred" =>
        \A n \in NamesWithoutWriter : new_temp_vars[n] = None

\* the outcomes logged for chain number chain
ChainLog(log, chain) == SelectSeq(log, LAMBDA e : e.chain = chain)

\* chain number chain is one variable that does not depend on itself
IsSingleVarChain(chain) ==
    /\ Len(sccs[chain]) = 1
    /\ sccs[chain][1] \notin DepGraph(writer_map, sccs[chain][1])

\* the last outcomes of the chain are one success without change of dtype for
\* each of its variables
EndsWithUnchangedPass(log, chain) ==
    LET of_chain == ChainLog(log, chain)
        n == Len(sccs[chain])
        m == Len(of_chain)
    IN  /\ m >= n
        /\ \A k \in (m - n + 1)..m :
                of_chain[k].success /\ ~of_chain[k].changed
        /\ {of_chain[k].name : k \in (m - n + 1)..m} =
           {sccs[chain][k] : k \in 1..n}

\* C30: fixed point and termination.  The loop of an SCC that has several
\* variables or a variable depending on itself ends without a failure only
\* after a pass over all its variables in which no dtype changed; a single
\* variable that does not depend on itself is evaluated at most twice; and the
\* function comes to an end, by returning or by raising.
C30_FixedPointAndTermination ==
    /\ [][ (/\ pc = "while"
            /\ pc' = "for"
            /\ debug_log' = debug_log
            /\ ~IsSingleVarChain(idx))
                => EndsWithUnchangedPass(debug_log, idx) ]_vars
    /\ [](\A chain \in 1..Len(sccs) :
            IsSingleVarChain(chain) => Len(ChainLog(debug_log, chain)) <= 2)
    /\ <>(pc \in {"inferred", "error"})

\* the function has returned after a chain of one variable that took one
\* evaluation and a chain of two variables that took three passes, a dtype
\* having changed in the second
C30_Witness ==
    /\ pc = "inferred"
    /\ \E chain \in 1..Len(sccs) :
            /\ IsSingleVarChain(chain)
            /\ Len(ChainLog(debug_log, chain)) = 1
    /\ \E chain \in 1..Len(sccs) :
            /\ Len(sccs[chain]) = 2
            /\ Len(ChainLog(debug_log, chain)) >= 6
            /\ EndsWithUnchangedPass(debug_log, chain)
            /\ \E i, j \in 1..Len(debug_log) :
                    /\ i < j
                    /\ debug_log[i].chain = chain
                    /\ debug_log[j].chain = chain
                    /\ debug_log[i].name = debug_log[j].name
                    /\ debug_log[i].changed
                    /\ debug_log[j].changed

====
